---------------------------- MODULE Spec2Model ----------------------------
(***************************************************************************)
(* A model of the trip-planning engine of the OSU bus app:                 *)
(*   src/BackEnd/busRouting.js  (isValidDirection, findNextBus,            *)
(*                               estimateBusTravelTime, findBestRoute)     *)
(*   src/unnamed/part_005       (the live-corroborated variant of          *)
(*                               estimateBusTravelTime and findBestRoute)  *)
(*                                                                         *)
(* Representation of numbers.  The JavaScript works on IEEE doubles; the   *)
(* model works on exact integers.  A duration is held as a whole number of *)
(* ticks, one tick being 1/(11*67) second, so that the three divisions of  *)
(* the code are exact on the inputs of the model:                          *)
(*     d metres / 1.1 m/s      = d * 670 ticks                             *)
(*     d metres / 6.7 m/s      = d * 110 ticks                             *)
(*     t seconds / 60 (minutes) = t * 737 ticks                            *)
(* A quantity the code calls "minutes" is therefore the tick count of that *)
(* many minutes; one minute is TicksPerMinute ticks.                       *)
(*                                                                         *)
(* Geometry.  Locations lie on one meridian; a location is its arc length  *)
(* in metres from a reference point, and haversineDistance of two such     *)
(* points is the absolute difference.                                      *)
(***************************************************************************)
EXTENDS Integers, Sequences, FiniteSets, TLC

VARIABLES routes, userLocation, destinationLocation, ret

vars == <<routes, userLocation, destinationLocation, ret>>

---------------------------------------------------------------------------
(* Bounds of the model *)

MaxStops == 4

\* the predictions of all vehicles of a route together
MaxPredictions == 3

StopIds == {"S0", "S1", "S2", "S3"}

---------------------------------------------------------------------------
(* Units *)

TicksPerSecond == 11 * 67

TicksPerMinute == 60 * TicksPerSecond

Abs(x) == IF x < 0 THEN 0 - x ELSE x

---------------------------------------------------------------------------
(* JavaScript values of a prediction's timeToArrivalInSeconds: a number,   *)
(* null, or undefined (the key is missing).                                *)

Num(n) == [kind |-> "num", n |-> n]

Null == [kind |-> "null", n |-> 0]

Undefined == [kind |-> "undef", n |-> 0]

\* v !== undefined
IsDefined(v) == v.kind # "undef"

\* ToNumber(v) for a defined v: null converts to 0
ToNumber(v) == v.n

\* a > b on JavaScript values: undefined converts to NaN and compares false
JsGt(a, b) == IsDefined(a) /\ IsDefined(b) /\ ToNumber(a) > ToNumber(b)

\* a < b, b a number or Infinity (Infinity is [kind |-> "inf"])
JsLtBound(a, b) ==
    /\ IsDefined(a)
    /\ \/ b.kind = "inf"
       \/ IsDefined(b) /\ ToNumber(a) < ToNumber(b)

Infinity == [kind |-> "inf", n |-> 0]

---------------------------------------------------------------------------
(* Array helpers *)

\* Array.prototype.find over the positions S that satisfy the predicate:
\* the smallest of them, 0 when there is none
FirstOf(S) == IF S = {} THEN 0 ELSE CHOOSE i \in S : \A j \in S : i <= j

---------------------------------------------------------------------------
(* isValidDirection, src/BackEnd/busRouting.js:100-148 *)

RECURSIVE stopPositionsUpTo(_, _)
\* the object built by route.stops.forEach((stop, index) => stopPositions[stop.id] = index)
\* after the first n stops: a later stop with the same id overwrites the entry
stopPositionsUpTo(stops, n) ==
    IF n = 0
    THEN [id \in {} |-> 0]
    ELSE LET prev == stopPositionsUpTo(stops, n - 1)
             sid == stops[n].id
         IN [id \in (DOMAIN prev) \cup {sid} |->
                IF id = sid THEN n - 1 ELSE prev[id]]

\* an index map that keeps the first stop of an id instead of the last
stopPositions_firstOccurrence(stops) ==
    [id \in {stops[i].id : i \in DOMAIN stops} |->
        (CHOOSE i \in DOMAIN stops :
            /\ stops[i].id = id
            /\ \A j \in DOMAIN stops : stops[j].id = id => i <= j) - 1]

stopPositions(stops) == stopPositionsUpTo(stops, Len(stops))

\* the circularity test of lines 126-127
isCircularRoute(route) ==
    \/ route.isCircular
    \/ /\ Len(route.stops) > 2
       /\ route.stops[1].id = route.stops[Len(route.stops)].id

isValidDirection_wrapOffByOne(route, startStopId, endStopId) ==
    LET positions == stopPositions(route.stops)
        totalStops == Len(route.stops)
    IN IF startStopId \notin DOMAIN positions \/ endStopId \notin DOMAIN positions
       THEN [valid |-> FALSE, stopsBetween |-> 0]
       ELSE LET startIndex == positions[startStopId]
                endIndex == positions[endStopId]
            IN IF startIndex = endIndex
               THEN [valid |-> FALSE, stopsBetween |-> 0]
               ELSE IF endIndex > startIndex
               THEN [valid |-> TRUE, stopsBetween |-> endIndex - startIndex]
               ELSE IF isCircularRoute(route) /\ endIndex < startIndex
               THEN [valid |-> TRUE,
                     stopsBetween |-> (totalStops - 1 - startIndex) + endIndex]
               ELSE [valid |-> FALSE, stopsBetween |-> 0]

isValidDirection_ignoreOrder(route, startStopId, endStopId) ==
    LET positions == stopPositions(route.stops)
    IN IF startStopId \notin DOMAIN positions \/ endStopId \notin DOMAIN positions
       THEN [valid |-> FALSE, stopsBetween |-> 0]
       ELSE LET startIndex == positions[startStopId]
                endIndex == positions[endStopId]
            IN IF startIndex = endIndex
               THEN [valid |-> FALSE, stopsBetween |-> 0]
               ELSE [valid |-> TRUE, stopsBetween |-> Abs(endIndex - startIndex)]

isValidDirection(route, startStopId, endStopId) ==
    LET positions == stopPositions(route.stops)
        totalStops == Len(route.stops)
    IN IF startStopId \notin DOMAIN positions \/ endStopId \notin DOMAIN positions
       THEN [valid |-> FALSE, stopsBetween |-> 0]
       ELSE LET startIndex == positions[startStopId]
                endIndex == positions[endStopId]
            IN IF startIndex = endIndex
               THEN [valid |-> FALSE, stopsBetween |-> 0]
               ELSE IF endIndex > startIndex
               THEN [valid |-> TRUE, stopsBetween |-> endIndex - startIndex]
               ELSE IF isCircularRoute(route) /\ endIndex < startIndex
               THEN [valid |-> TRUE,
                     stopsBetween |-> (totalStops - startIndex) + endIndex]
               ELSE [valid |-> FALSE, stopsBetween |-> 0]

---------------------------------------------------------------------------
(* findNextBus, src/BackEnd/busRouting.js:157-199 (the same text is        *)
(* src/unnamed/part_005:193-235)                                           *)

\* prediction.timeToArrivalInSeconds / 60, in ticks
busArrivalMinutesOf(prediction) ==
    ToNumber(prediction.timeToArrivalInSeconds) * TicksPerSecond

\* vehicle.predictions.find((pred) => pred.stopId === stopId): its position, or 0
findPrediction(predictions, stopId) ==
    FirstOf({i \in DOMAIN predictions : predictions[i].stopId = stopId})

NoBus == [found |-> FALSE]

BusInfo(vehicle, prediction, busArrivalMinutes, minArrivalTime) ==
    [found |-> TRUE,
     vehicleId |-> vehicle.id,
     eta |-> busArrivalMinutes,
     waitTime |-> busArrivalMinutes - minArrivalTime,
     prediction |-> prediction,
     vehicle |-> vehicle]

considerVehicle_noMinCheck(closestBus, vehicle, stopId, minArrivalTime) ==
    LET i == findPrediction(vehicle.predictions, stopId)
    IN IF Len(vehicle.predictions) = 0 \/ i = 0
       THEN closestBus
       ELSE LET prediction == vehicle.predictions[i]
                busArrivalMinutes == busArrivalMinutesOf(prediction)
            IN IF /\ IsDefined(prediction.timeToArrivalInSeconds)
                  /\ (~closestBus.found \/ busArrivalMinutes < closestBus.eta)
               THEN BusInfo(vehicle, prediction, busArrivalMinutes, minArrivalTime)
               ELSE closestBus

\* the forEach callback of lines 166-196; shortestWait is Infinity while
\* closestBus is null and closestBus.eta afterwards
considerVehicle(closestBus, vehicle, stopId, minArrivalTime) ==
    LET i == findPrediction(vehicle.predictions, stopId)
    IN IF Len(vehicle.predictions) = 0 \/ i = 0
       THEN closestBus
       ELSE LET prediction == vehicle.predictions[i]
                busArrivalMinutes == busArrivalMinutesOf(prediction)
            IN IF /\ IsDefined(prediction.timeToArrivalInSeconds)
                  /\ busArrivalMinutes >= minArrivalTime
                  /\ (~closestBus.found \/ busArrivalMinutes < closestBus.eta)
               THEN BusInfo(vehicle, prediction, busArrivalMinutes, minArrivalTime)
               ELSE closestBus

RECURSIVE findNextBusUpTo(_, _, _, _)
\* closestBus after the first n vehicles of route.vehicles.forEach
findNextBusUpTo(route, stopId, minArrivalTime, n) ==
    IF n = 0
    THEN NoBus
    ELSE considerVehicle(findNextBusUpTo(route, stopId, minArrivalTime, n - 1),
                         route.vehicles[n], stopId, minArrivalTime)

findNextBus(route, stopId, minArrivalTime) ==
    IF Len(route.vehicles) = 0
    THEN NoBus
    ELSE findNextBusUpTo(route, stopId, minArrivalTime, Len(route.vehicles))

---------------------------------------------------------------------------
(* Geometry, src/BackEnd/busRouting.js:8-51 *)

\* haversineDistance of two points of the meridian, in metres
haversineDistance(p1, p2) == Abs(p1 - p2)

\* distance / 1.1 / 60 minutes, in ticks
walkTimeOfDistance(distance) == distance * (10 * 67)

\* a location argument that is null or undefined
AbsentLocation == 0 - 1

\* !point || !point.latitude || !point.longitude of line 30: the point is
\* absent or stands on the equator (latitude 0 is falsy)
invalidPoint(point) == point = AbsentLocation \/ point = 0

\* calculateWalkTime: 0 for an invalid point, else distance / 1.1 / 60
calculateWalkTime(point1, point2) ==
    IF invalidPoint(point1) \/ invalidPoint(point2)
    THEN 0
    ELSE walkTimeOfDistance(haversineDistance(point1, point2))

---------------------------------------------------------------------------
(* estimateBusTravelTime, src/BackEnd/busRouting.js:209-248: the ride time *)
(* in minutes (ticks)                                                      *)

\* route.stops.find(s => s.id === stopId): its position, or 0
findStop(route, stopId) ==
    FirstOf({i \in DOMAIN route.stops : route.stops[i].id = stopId})

\* lines 229-247: distance / 6.7 / 60 minutes, or 10 minutes
fallbackTravelTime(route, startStopId, endStopId) ==
    LET s == findStop(route, startStopId)
        e == findStop(route, endStopId)
    IN IF s = 0 \/ e = 0
       THEN 10 * TicksPerMinute
       ELSE haversineDistance(route.stops[s].pos, route.stops[e].pos) * (10 * 11)

estimateBusTravelTime(route, startStopId, endStopId, busInfo) ==
    LET predictions == busInfo.vehicle.predictions
        s == findPrediction(predictions, startStopId)
        e == findPrediction(predictions, endStopId)
        live == /\ busInfo.found
                /\ s # 0
                /\ e # 0
                /\ IsDefined(predictions[s].timeToArrivalInSeconds)
                /\ IsDefined(predictions[e].timeToArrivalInSeconds)
        travelTimeSec == ToNumber(predictions[e].timeToArrivalInSeconds)
                           - ToNumber(predictions[s].timeToArrivalInSeconds)
    IN IF live /\ travelTimeSec > 0
       THEN travelTimeSec * TicksPerSecond
       ELSE fallbackTravelTime(route, startStopId, endStopId)

---------------------------------------------------------------------------
(* estimateBusTravelTime, src/unnamed/part_005:245-300: the ride time and  *)
(* the stop count, both 0 when the trip cannot be corroborated             *)

NoEstimate == [travelTime |-> 0, stopsBetween |-> 0]

\* predictions.find(p => p.stopId === startStopId && p.timeToArrivalInSeconds > startTime)
findNextStart(predictions, startStopId, startTime) ==
    FirstOf({i \in DOMAIN predictions :
                /\ predictions[i].stopId = startStopId
                /\ JsGt(predictions[i].timeToArrivalInSeconds, startTime)})

findEnd_noLoopBound(predictions, endStopId, startTime, loopBackTime) ==
    FirstOf({i \in DOMAIN predictions :
                /\ predictions[i].stopId = endStopId
                /\ IsDefined(predictions[i].timeToArrivalInSeconds)
                /\ JsGt(predictions[i].timeToArrivalInSeconds, startTime)})

\* lines 266-271
findEnd(predictions, endStopId, startTime, loopBackTime) ==
    FirstOf({i \in DOMAIN predictions :
                /\ predictions[i].stopId = endStopId
                /\ IsDefined(predictions[i].timeToArrivalInSeconds)
                /\ JsGt(predictions[i].timeToArrivalInSeconds, startTime)
                /\ JsLtBound(predictions[i].timeToArrivalInSeconds, loopBackTime)})

\* lines 278-285: the distinct stop ids predicted in (startTime, endTime]
countStopsBetween(predictions, startTime, endTime) ==
    Cardinality({predictions[i].stopId : i \in
        {j \in DOMAIN predictions :
            /\ JsGt(predictions[j].timeToArrivalInSeconds, startTime)
            /\ ~JsGt(predictions[j].timeToArrivalInSeconds, endTime)
            /\ IsDefined(predictions[j].timeToArrivalInSeconds)}})

estimateBusTravelTimeLive(route, startStopId, endStopId, busInfo) ==
    IF ~busInfo.found
    THEN NoEstimate
    ELSE
    LET predictions == busInfo.vehicle.predictions
        s == findPrediction(predictions, startStopId)
    IN IF s = 0 \/ ~IsDefined(predictions[s].timeToArrivalInSeconds)
       THEN NoEstimate
       ELSE LET startTime == predictions[s].timeToArrivalInSeconds
                n == findNextStart(predictions, startStopId, startTime)
                loopBackTime == IF n # 0
                                THEN predictions[n].timeToArrivalInSeconds
                                ELSE Infinity
                e == findEnd(predictions, endStopId, startTime, loopBackTime)
            IN IF e = 0
               THEN NoEstimate
               ELSE LET endTime == predictions[e].timeToArrivalInSeconds
                    IN [travelTime |->
                            (ToNumber(endTime) - ToNumber(startTime)) * TicksPerSecond,
                        stopsBetween |->
                            countStopsBetween(predictions, startTime, endTime)]

---------------------------------------------------------------------------
(* findNearbyStops, src/BackEnd/busRouting.js:60-92 *)

\* the entry pushed for a stop of a route at the given distance
NearbyStop(route, stop, distance) ==
    [stopId |-> stop.id,
     pos |-> stop.pos,
     routeId |-> route.id,
     distanceMeters |-> distance,
     walkTimeMinutes |-> walkTimeOfDistance(distance)]

RECURSIVE nearbyStopsOfRoute(_, _, _, _)
\* the entries pushed for the first n stops of the route
nearbyStopsOfRoute(location, route, maxWalkMeters, n) ==
    IF n = 0
    THEN <<>>
    ELSE LET before == nearbyStopsOfRoute(location, route, maxWalkMeters, n - 1)
             distance == haversineDistance(location, route.stops[n].pos)
         IN IF distance <= maxWalkMeters
            THEN Append(before, NearbyStop(route, route.stops[n], distance))
            ELSE before

RECURSIVE nearbyStopsUpTo(_, _, _, _)
\* the entries pushed for the first n routes of Object.values(routes)
nearbyStopsUpTo(location, rts, maxWalkMeters, n) ==
    IF n = 0
    THEN <<>>
    ELSE nearbyStopsUpTo(location, rts, maxWalkMeters, n - 1)
           \o (IF "stops" \notin DOMAIN rts[n]
               THEN <<>>
               ELSE nearbyStopsOfRoute(location, rts[n], maxWalkMeters,
                                       Len(rts[n].stops)))

RECURSIVE dropSeenStopsUpTo(_, _)
\* the first n entries without those whose stop id an earlier entry has
dropSeenStopsUpTo(entries, n) ==
    IF n = 0
    THEN <<>>
    ELSE IF \E j \in 1..(n - 1) : entries[j].stopId = entries[n].stopId
    THEN dropSeenStopsUpTo(entries, n - 1)
    ELSE Append(dropSeenStopsUpTo(entries, n - 1), entries[n])

\* findNearbyStops keeping one entry for each stop id
findNearbyStops_oneForEachStopId(location, rts, maxWalkMeters) ==
    LET entries == nearbyStopsUpTo(location, rts, maxWalkMeters, Len(rts))
    IN dropSeenStopsUpTo(entries, Len(entries))

findNearbyStops(location, rts, maxWalkMeters) ==
    nearbyStopsUpTo(location, rts, maxWalkMeters, Len(rts))

\* routes[routeId]: the position of the route with that id, 0 when absent
routeById(rts, routeId) ==
    FirstOf({i \in DOMAIN rts : rts[i].id = routeId})

---------------------------------------------------------------------------
(* The ranking of findBestRoute, src/BackEnd/busRouting.js:383-395 (the    *)
(* same text is src/unnamed/part_005:438-450)                              *)

TIME_SIMILARITY_THRESHOLD == 1

compareTrips_noThreshold(a, b) == a.totalTime - b.totalTime

\* the comparator handed to possibleTrips.sort
compareTrips(a, b) ==
    LET timeDiff == a.totalTime - b.totalTime
    IN IF Abs(timeDiff) <= TIME_SIMILARITY_THRESHOLD * TicksPerMinute
       THEN a.walkToStopTime - b.walkToStopTime
       ELSE timeDiff

RECURSIVE OrderingsOf(_)
\* every sequence that holds each element of S once
OrderingsOf(S) ==
    IF S = {}
    THEN {<<>>}
    ELSE UNION {{<<x>> \o g : g \in OrderingsOf(S \ {x})} : x \in S}

\* Array.prototype.sort is stable, and sorts by the comparator when the
\* comparator orders the elements consistently; the threshold comparator
\* does not always (it is not transitive), and the order is then whatever
\* the engine's algorithm leaves.  The outcomes kept here are those in which
\* every element stands before its successor by the comparator, equal
\* neighbours in their original order: what insertion sorts, binary
\* insertion sorts and merge sorts leave, and for a consistent comparator
\* the one sorted order.
sortOutcomes(trips) ==
    {[i \in 1..Len(trips) |-> trips[f[i]]] :
        f \in {g \in OrderingsOf(1..Len(trips)) :
                  \A i \in 1..(Len(trips) - 1) :
                      \/ compareTrips(trips[g[i]], trips[g[i + 1]]) < 0
                      \/ /\ compareTrips(trips[g[i]], trips[g[i + 1]]) = 0
                         /\ g[i] < g[i + 1]}}

\* possibleTrips.slice(0, 2)
slice13_fromFirst(trips) ==
    SubSeq(trips, 1, IF Len(trips) < 2 THEN Len(trips) ELSE 2)

\* possibleTrips.slice(1, 3)
slice13(trips) ==
    [i \in 1..(IF Len(trips) >= 3 THEN 2 ELSE IF Len(trips) = 2 THEN 1 ELSE 0)
        |-> trips[i + 1]]

\* {...bestTrip, waitTime, busTime} of lines 405-411 (fromStop and toStop are
\* stop names, which the model does not carry)
tripWithAliases(bestTrip) ==
    [f \in (DOMAIN bestTrip) \cup {"waitTime", "busTime"} |->
        IF f = "waitTime" THEN bestTrip.busWaitTime
        ELSE IF f = "busTime" THEN bestTrip.busTravelTime
        ELSE bestTrip[f]]

\* the candidate a primary trip was made of: the trip without the aliases
candidateOf(trip) ==
    [f \in (DOMAIN trip) \ {"waitTime", "busTime"} |-> trip[f]]

\* the 'bus' result of lines 395-415, built from the sorted possibleTrips
busResult(sorted, directWalkTime) ==
    [recommendation |-> "bus",
     route |-> [id |-> sorted[1].routeId],
     trip |-> tripWithAliases(sorted[1]),
     directWalkTime |-> directWalkTime,
     alternativeTrips |-> slice13(sorted)]

---------------------------------------------------------------------------
(* findBestRoute, src/BackEnd/busRouting.js:258-416 *)

\* the walking radius of lines 272-273, metres
NearbyRadius == 400

\* a routes argument that is null or undefined
AbsentRoutes == <<[id |-> "null"]>>

\* !userLocation || !destinationLocation || !routes of line 262
missingRequiredData(origin, destination, rts) ==
    \/ origin = AbsentLocation
    \/ destination = AbsentLocation
    \/ rts = AbsentRoutes

\* the validation moved below the direct walk time and the stop searches
stepsPerformed_validateLate(origin, destination, rts) ==
    {"calculateWalkTime", "findNearbyStops"}
        \cup (IF missingRequiredData(origin, destination, rts)
              THEN {}
              ELSE {"enumerate"})

\* the steps of findBestRoute a call goes through, by its early returns:
\* calculateWalkTime (line 269), findNearbyStops (lines 272-273), the
\* enumeration of the stop pairs (lines 298-371)
stepsPerformed(origin, destination, rts) ==
    IF missingRequiredData(origin, destination, rts)
    THEN {}
    ELSE {"calculateWalkTime", "findNearbyStops"}
           \cup (IF findNearbyStops(origin, rts, NearbyRadius) = <<>>
                    \/ findNearbyStops(destination, rts, NearbyRadius) = <<>>
                 THEN {}
                 ELSE {"enumerate"})

\* totalTime of lines 334-339, dropping the wait
totalTimeOf_noWait(walkToStop, waitTime, busTravelTime, walkFromStop) ==
    walkToStop + busTravelTime + walkFromStop

\* totalTime of lines 334-339
totalTimeOf(walkToStop, waitTime, busTravelTime, walkFromStop) ==
    walkToStop + waitTime + busTravelTime + walkFromStop

\* one round of the inner loop, lines 304-370: the trip pushed, if any
tripOf(rts, startStop, endStop, destination) ==
    LET r == routeById(rts, startStop.routeId)
        route == rts[r]
        directionCheck == isValidDirection(route, startStop.stopId, endStop.stopId)
        nextBus == findNextBus(route, startStop.stopId, startStop.walkTimeMinutes)
        busTravelTime == estimateBusTravelTime(route, startStop.stopId,
                                               endStop.stopId, nextBus)
        walkFromStop == calculateWalkTime(endStop.pos, destination)
    IN IF r = 0 \/ endStop.routeId # startStop.routeId
       THEN <<>>
       ELSE IF ~directionCheck.valid
       THEN <<>>
       ELSE IF ~nextBus.found
       THEN <<>>
       ELSE <<[routeId |-> route.id,
               startStop |-> [id |-> startStop.stopId, pos |-> startStop.pos],
               endStop |-> [id |-> endStop.stopId, pos |-> endStop.pos],
               busId |-> nextBus.vehicleId,
               busETA |-> nextBus.eta,
               walkToStopTime |-> startStop.walkTimeMinutes,
               busWaitTime |-> nextBus.waitTime,
               busTravelTime |-> busTravelTime,
               walkFromStopTime |-> walkFromStop,
               totalTime |-> totalTimeOf(startStop.walkTimeMinutes,
                                         nextBus.waitTime, busTravelTime,
                                         walkFromStop),
               stopsBetween |-> directionCheck.stopsBetween]>>

RECURSIVE possibleTripsUpTo(_, _, _, _, _)
\* possibleTrips after the first k rounds of the nested loops, the end
\* stops running in the inner loop
possibleTripsUpTo(rts, startStops, endStops, destination, k) ==
    IF k = 0
    THEN <<>>
    ELSE possibleTripsUpTo(rts, startStops, endStops, destination, k - 1)
           \o tripOf(rts,
                     startStops[((k - 1) \div Len(endStops)) + 1],
                     endStops[((k - 1) % Len(endStops)) + 1],
                     destination)

\* possibleTrips as the loops of lines 298-371 leave it, empty when the
\* call returns before them
possibleTrips(origin, destination, rts) ==
    LET startStops == findNearbyStops(origin, rts, NearbyRadius)
        endStops == findNearbyStops(destination, rts, NearbyRadius)
    IN IF "enumerate" \notin stepsPerformed(origin, destination, rts)
       THEN <<>>
       ELSE possibleTripsUpTo(rts, startStops, endStops, destination,
                              Len(startStops) * Len(endStops))

\* the snapshot after a call that took the vehicles out of it
snapshotAfter_vehiclesTaken(rts) ==
    [r \in DOMAIN rts |->
        IF "vehicles" \in DOMAIN rts[r]
        THEN [rts[r] EXCEPT !.vehicles = <<>>]
        ELSE rts[r]]

\* the snapshot after the call: findBestRoute and the functions it calls
\* only read routes, the routes' stops and vehicles and the vehicles'
\* predictions (Object.values, forEach, find, property reads); what they
\* push to and sort are their own arrays nearbyStops and possibleTrips
snapshotAfter(rts) == rts

\* the value returned, the trips being possibleTrips after the sort
findBestRoute(origin, destination, rts, sorted) ==
    LET directWalkTime == calculateWalkTime(origin, destination)
        startStops == findNearbyStops(origin, rts, NearbyRadius)
        endStops == findNearbyStops(destination, rts, NearbyRadius)
    IN IF missingRequiredData(origin, destination, rts)
       THEN [recommendation |-> "error",
             reason |-> "Missing required data"]
       ELSE IF Len(startStops) = 0
       THEN [recommendation |-> "error",
             reason |-> "No bus stops nearby (within 400m)",
             directWalkTime |-> directWalkTime,
             nearbyStartStops |-> startStops]
       ELSE IF Len(endStops) = 0
       THEN [recommendation |-> "error",
             reason |-> "No bus stops near destination",
             directWalkTime |-> directWalkTime,
             nearbyEndStops |-> endStops]
       ELSE IF Len(sorted) = 0
       THEN [recommendation |-> "error",
             reason |-> "No buses running along your route",
             nearbyStartStops |-> startStops,
             nearbyEndStops |-> endStops]
       ELSE busResult(sorted, directWalkTime)

---------------------------------------------------------------------------
(* findBestRoute, src/unnamed/part_005:310-471 *)

\* the walking radius of lines 324-325, metres
NearbyRadiusLive == 750

\* one round of the inner loop, lines 356-425: the trip pushed, if any
tripOfLive(rts, startStop, endStop, destination) ==
    LET r == routeById(rts, startStop.routeId)
        route == rts[r]
        nextBus == findNextBus(route, startStop.stopId, startStop.walkTimeMinutes)
        busEstimate == estimateBusTravelTimeLive(route, startStop.stopId,
                                                 endStop.stopId, nextBus)
        walkFromStop == calculateWalkTime(endStop.pos, destination)
    IN IF r = 0 \/ endStop.routeId # startStop.routeId
       THEN <<>>
       ELSE IF startStop.stopId = endStop.stopId
       THEN <<>>
       ELSE IF ~nextBus.found
       THEN <<>>
       ELSE IF busEstimate.travelTime <= 0
       THEN <<>>
       ELSE <<[routeId |-> route.id,
               startStop |-> [id |-> startStop.stopId, pos |-> startStop.pos],
               endStop |-> [id |-> endStop.stopId, pos |-> endStop.pos],
               busId |-> nextBus.vehicleId,
               busETA |-> nextBus.eta,
               walkToStopTime |-> startStop.walkTimeMinutes,
               busWaitTime |-> nextBus.waitTime,
               busTravelTime |-> busEstimate.travelTime,
               walkFromStopTime |-> walkFromStop,
               totalTime |-> totalTimeOf(startStop.walkTimeMinutes,
                                         nextBus.waitTime,
                                         busEstimate.travelTime, walkFromStop),
               stopsBetween |-> busEstimate.stopsBetween]>>

RECURSIVE possibleTripsLiveUpTo(_, _, _, _, _)
possibleTripsLiveUpTo(rts, startStops, endStops, destination, k) ==
    IF k = 0
    THEN <<>>
    ELSE possibleTripsLiveUpTo(rts, startStops, endStops, destination, k - 1)
           \o tripOfLive(rts,
                         startStops[((k - 1) \div Len(endStops)) + 1],
                         endStops[((k - 1) % Len(endStops)) + 1],
                         destination)

\* possibleTrips as the loops of lines 350-426 leave it
possibleTripsLive(origin, destination, rts) ==
    LET startStops == findNearbyStops(origin, rts, NearbyRadiusLive)
        endStops == findNearbyStops(destination, rts, NearbyRadiusLive)
    IN IF missingRequiredData(origin, destination, rts)
       THEN <<>>
       ELSE possibleTripsLiveUpTo(rts, startStops, endStops, destination,
                                  Len(startStops) * Len(endStops))

\* the value returned, the trips being possibleTrips after the sort
findBestRouteLive(origin, destination, rts, sorted) ==
    LET directWalkTime == calculateWalkTime(origin, destination)
        startStops == findNearbyStops(origin, rts, NearbyRadiusLive)
        endStops == findNearbyStops(destination, rts, NearbyRadiusLive)
    IN IF missingRequiredData(origin, destination, rts)
       THEN [recommendation |-> "error",
             reason |-> "Missing required data"]
       ELSE IF Len(startStops) = 0
       THEN [recommendation |-> "error",
             reason |-> "No bus stops nearby (within 750m)",
             directWalkTime |-> directWalkTime,
             nearbyStartStops |-> startStops]
       ELSE IF Len(endStops) = 0
       THEN [recommendation |-> "error",
             reason |-> "No bus stops near destination",
             directWalkTime |-> directWalkTime,
             nearbyEndStops |-> endStops]
       ELSE IF Len(sorted) = 0
       THEN [recommendation |-> "error",
             reason |-> "No buses running along your route",
             nearbyStartStops |-> startStops,
             nearbyEndStops |-> endStops]
       ELSE busResult(sorted, directWalkTime)

---------------------------------------------------------------------------
(* The direction validator on its own: a route of the snapshot with any    *)
(* stop sequence, and any request.                                         *)

\* stop i of a route stands StopSpacing metres after stop i - 1
StopSpacing == 20 * 33

StopAt(id, i) == [id |-> id, pos |-> StopSpacing * i]

StopSequences ==
    UNION {[1..n -> StopIds] : n \in 0..MaxStops}

MakeStops(ids) == [i \in DOMAIN ids |-> StopAt(ids[i], i)]

NoRet == [op |-> "none"]

InitDirection ==
    /\ \E ids \in StopSequences, c \in BOOLEAN :
          routes = <<[id |-> "R1", stops |-> MakeStops(ids),
                      isCircular |-> c, vehicles |-> <<>>]>>
    /\ userLocation = 0
    /\ destinationLocation = 0
    /\ ret = NoRet

CallIsValidDirection ==
    /\ \E startStopId \in StopIds, endStopId \in StopIds :
          ret' = [op |-> "isValidDirection",
                  startStopId |-> startStopId,
                  endStopId |-> endStopId,
                  result |-> isValidDirection(routes[1], startStopId, endStopId)]
    /\ UNCHANGED <<routes, userLocation, destinationLocation>>

NextDirection == CallIsValidDirection

SpecDirection == InitDirection /\ [][NextDirection]_vars

---------------------------------------------------------------------------
(* Notions the claims about the direction validator are stated in *)

StopIdsOf(route) == {route.stops[i].id : i \in DOMAIN route.stops}

DistinctStopIds(route) ==
    \A i, j \in DOMAIN route.stops :
        route.stops[i].id = route.stops[j].id => i = j

\* the 0-based position of a stop id that occurs on the route; with
\* repeated ids the index map of the validator holds the last occurrence
IndexOf(route, id) ==
    (CHOOSE i \in DOMAIN route.stops :
        /\ route.stops[i].id = id
        /\ \A j \in DOMAIN route.stops : route.stops[j].id = id => j <= i) - 1

FirstAndLastIdentical(route) ==
    /\ Len(route.stops) > 0
    /\ route.stops[1].id = route.stops[Len(route.stops)].id

DirectionReturned == ret.op = "isValidDirection"

\* C1: on a non-circular route with distinct stop ids, isValidDirection is
\* valid exactly when both stops are on the route and the start stop's index
\* is smaller than the end stop's, stopsBetween is then the index difference,
\* and every invalid result is {valid: false, stopsBetween: 0}.
C1_NonCircularDirection ==
    (DirectionReturned /\ ~routes[1].isCircular /\ DistinctStopIds(routes[1])) =>
        LET r == routes[1]
            a == ret.startStopId
            b == ret.endStopId
            onRoute == a \in StopIdsOf(r) /\ b \in StopIdsOf(r)
        IN /\ ret.result.valid <=> (onRoute /\ IndexOf(r, a) < IndexOf(r, b))
           /\ ret.result.valid =>
                 ret.result.stopsBetween = IndexOf(r, b) - IndexOf(r, a)
           /\ ~ret.result.valid => ret.result.stopsBetween = 0

\* a backward request on a non-circular route of four distinct stops has been refused
C1_Witness ==
    /\ DirectionReturned
    /\ ~routes[1].isCircular
    /\ DistinctStopIds(routes[1])
    /\ Len(routes[1].stops) = 4
    /\ ret.startStopId \in StopIdsOf(routes[1])
    /\ ret.endStopId \in StopIdsOf(routes[1])
    /\ IndexOf(routes[1], ret.endStopId) < IndexOf(routes[1], ret.startStopId)
    /\ ret.result = [valid |-> FALSE, stopsBetween |-> 0]

\* C2: on a circular route (flag set, or first and last stop ids identical)
\* of N stops, a pair with endIndex < startIndex is valid with stopsBetween =
\* (N - startIndex) + endIndex, and a pair with endIndex > startIndex is
\* valid with stopsBetween = endIndex - startIndex.
C2_CircularWraparound ==
    (/\ DirectionReturned
     /\ routes[1].isCircular \/ FirstAndLastIdentical(routes[1])
     /\ ret.startStopId \in StopIdsOf(routes[1])
     /\ ret.endStopId \in StopIdsOf(routes[1])) =>
        LET r == routes[1]
            N == Len(r.stops)
            startIndex == IndexOf(r, ret.startStopId)
            endIndex == IndexOf(r, ret.endStopId)
        IN /\ endIndex < startIndex =>
                 ret.result = [valid |-> TRUE,
                               stopsBetween |-> (N - startIndex) + endIndex]
           /\ endIndex > startIndex =>
                 ret.result = [valid |-> TRUE,
                               stopsBetween |-> endIndex - startIndex]

\* a wraparound request on a route that is circular only by its repeated
\* terminal stop has been answered
C2_Witness ==
    /\ DirectionReturned
    /\ ~routes[1].isCircular
    /\ FirstAndLastIdentical(routes[1])
    /\ Len(routes[1].stops) = 4
    /\ ret.startStopId \in StopIdsOf(routes[1])
    /\ ret.endStopId \in StopIdsOf(routes[1])
    /\ IndexOf(routes[1], ret.endStopId) < IndexOf(routes[1], ret.startStopId)
    /\ ret.result.valid
    /\ ret.result.stopsBetween = 3

\* the stop ids of a route, in order
StopIdSequence(route) == [i \in DOMAIN route.stops |-> route.stops[i].id]

\* C23: Scenario C: on the circular route [S0,S1,S2,S0], whose terminal stop
\* duplicates the first, isValidDirection for the request S2 -> S0 is valid
\* with stopsBetween = 1.
C23_ScenarioC ==
    (/\ DirectionReturned
     /\ StopIdSequence(routes[1]) = <<"S0", "S1", "S2", "S0">>
     /\ ret.startStopId = "S2"
     /\ ret.endStopId = "S0") =>
        ret.result = [valid |-> TRUE, stopsBetween |-> 1]

\* the request S2 -> S0 has been answered on [S0,S1,S2,S0], circular by its
\* repeated terminal stop alone
C23_Witness ==
    /\ DirectionReturned
    /\ StopIdSequence(routes[1]) = <<"S0", "S1", "S2", "S0">>
    /\ ~routes[1].isCircular
    /\ ret.startStopId = "S2"
    /\ ret.endStopId = "S0"
    /\ ret.result.valid

\* a route whose stop list is a loop of distinct stops closed by a duplicate
\* of its first stop
ClosedLoop(route) ==
    /\ Len(route.stops) > 2
    /\ route.stops[1].id = route.stops[Len(route.stops)].id
    /\ \A i, j \in 1..(Len(route.stops) - 1) :
           route.stops[i].id = route.stops[j].id => i = j

\* the 0-based position of a stop id on the loop (the first N - 1 stops)
LoopIndexOf(route, id) ==
    (CHOOSE i \in 1..(Len(route.stops) - 1) : route.stops[i].id = id) - 1

\* the number of forward hops along the loop from stop a to stop b
ForwardHops(route, a, b) ==
    (LoopIndexOf(route, b) - LoopIndexOf(route, a) + (Len(route.stops) - 1))
        % (Len(route.stops) - 1)

\* C29: on a circular route whose stop list ends with a duplicate of its
\* first stop (N stops, a loop of N - 1), stopsBetween returned by
\* isValidDirection is the number of forward hops along the loop from the
\* start stop to the end stop, for every ordered pair of distinct stops, so
\* that stopsBetween(A, B) + stopsBetween(B, A) = N - 1.
C29_StopsBetweenCountsHops ==
    (/\ DirectionReturned
     /\ ClosedLoop(routes[1])
     /\ ret.startStopId \in StopIdsOf(routes[1])
     /\ ret.endStopId \in StopIdsOf(routes[1])
     /\ ret.startStopId # ret.endStopId) =>
        /\ ret.result.valid
        /\ ret.result.stopsBetween =
              ForwardHops(routes[1], ret.startStopId, ret.endStopId)
        /\ ret.result.stopsBetween
              + isValidDirection(routes[1], ret.endStopId,
                                 ret.startStopId).stopsBetween
             = Len(routes[1].stops) - 1

\* what does hold on such a route: every pair of distinct stops is valid,
\* stopsBetween is the number of forward hops when the end stop's last index
\* is above the start stop's, and one more than it when the request wraps
StopsBetweenOnClosedLoop ==
    (/\ DirectionReturned
     /\ ClosedLoop(routes[1])
     /\ ret.startStopId \in StopIdsOf(routes[1])
     /\ ret.endStopId \in StopIdsOf(routes[1])
     /\ ret.startStopId # ret.endStopId) =>
        /\ ret.result.valid
        /\ ret.result.stopsBetween =
              IF IndexOf(routes[1], ret.endStopId)
                   > IndexOf(routes[1], ret.startStopId)
              THEN ForwardHops(routes[1], ret.startStopId, ret.endStopId)
              ELSE ForwardHops(routes[1], ret.startStopId, ret.endStopId) + 1

\* the wrapping request S2 -> S1 has been answered on [S0,S1,S2,S0]
StopsBetweenOnClosedLoop_Witness ==
    /\ DirectionReturned
    /\ StopIdSequence(routes[1]) = <<"S0", "S1", "S2", "S0">>
    /\ ret.startStopId = "S2"
    /\ ret.endStopId = "S1"
    /\ ret.result.stopsBetween = 3

---------------------------------------------------------------------------
(* The live arrival matcher on its own: the route S0..S3 with up to two    *)
(* vehicles, whose prediction lists hold any stop of the request and any   *)
(* kind of timeToArrivalInSeconds in any order; findNextBus for a rider    *)
(* who reaches the stop at minArrivalTime, then the ride-time estimate for *)
(* the bus it returned, as findBestRoute chains them.                      *)

VehicleIds == <<"V1", "V2">>

\* seconds; -60 is a bus that left a minute ago
TimeValues == {Undefined, Null, Num(0 - 60), Num(480), Num(900), Num(1200)}

MatcherStart == "S1"

MatcherEnd == "S3"

MatcherPredictions ==
    [stopId : {MatcherStart, MatcherEnd}, timeToArrivalInSeconds : TimeValues]

\* a list of nv vehicles (at most two) with the given predictions
VehicleList(nv, p1, p2) ==
    IF nv = 0
    THEN <<>>
    ELSE IF nv = 1
    THEN <<[id |-> VehicleIds[1], predictions |-> p1]>>
    ELSE <<[id |-> VehicleIds[1], predictions |-> p1],
           [id |-> VehicleIds[2], predictions |-> p2]>>

LineStops == MakeStops(<<"S0", "S1", "S2", "S3">>)

\* the rider is at the stop already, or five minutes away
MinArrivalTimes == {0, 5 * TicksPerMinute}

InitMatcher ==
    /\ \E nv \in 0..2 :
       \E k1 \in (IF nv = 0 THEN {0} ELSE 0..MaxPredictions) :
       \E k2 \in (IF nv < 2 THEN {0} ELSE 0..(MaxPredictions - k1)) :
       \E p1 \in [1..k1 -> MatcherPredictions], p2 \in [1..k2 -> MatcherPredictions] :
          routes = <<[id |-> "R1", stops |-> LineStops, isCircular |-> FALSE,
                      vehicles |-> VehicleList(nv, p1, p2)]>>
    /\ userLocation = 0
    /\ destinationLocation = 0
    /\ ret = NoRet

CallFindNextBus ==
    /\ ret.op = "none"
    /\ \E minArrivalTime \in MinArrivalTimes :
          ret' = [op |-> "findNextBus",
                  stopId |-> MatcherStart,
                  minArrivalTime |-> minArrivalTime,
                  result |-> findNextBus(routes[1], MatcherStart, minArrivalTime)]
    /\ UNCHANGED <<routes, userLocation, destinationLocation>>

CallEstimateBusTravelTime ==
    /\ ret.op = "findNextBus"
    /\ ret.result.found
    /\ ret' = [op |-> "estimateBusTravelTime",
               startStopId |-> ret.stopId,
               endStopId |-> MatcherEnd,
               busInfo |-> ret.result,
               result |-> estimateBusTravelTime(routes[1], ret.stopId,
                                                MatcherEnd, ret.result)]
    /\ UNCHANGED <<routes, userLocation, destinationLocation>>

CallEstimateBusTravelTimeLive ==
    /\ ret.op = "findNextBus"
    /\ ret.result.found
    /\ ret' = [op |-> "estimateBusTravelTimeLive",
               startStopId |-> ret.stopId,
               endStopId |-> MatcherEnd,
               busInfo |-> ret.result,
               result |-> estimateBusTravelTimeLive(routes[1], ret.stopId,
                                                    MatcherEnd, ret.result)]
    /\ UNCHANGED <<routes, userLocation, destinationLocation>>

NextMatcher ==
    \/ CallFindNextBus
    \/ CallEstimateBusTravelTime
    \/ CallEstimateBusTravelTimeLive

SpecMatcher == InitMatcher /\ [][NextMatcher]_vars

---------------------------------------------------------------------------
(* Notions the claims about the matcher are stated in *)

\* a secondsToArrival that is present and not negative
Usable(t) == t.kind = "num" /\ t.n >= 0

\* <<vehicle, position>> of every prediction of the route for stopId
PredictionsFor(route, stopId) ==
    {vi \in (DOMAIN route.vehicles) \X (1..MaxPredictions) :
        /\ vi[2] \in DOMAIN route.vehicles[vi[1]].predictions
        /\ route.vehicles[vi[1]].predictions[vi[2]].stopId = stopId}

\* the arrivals at stopId that a rider reaching the stop at minArrivalTime
\* can board, over every prediction of every vehicle of the route, a
\* secondsToArrival being usable when it is a number that is not negative
BoardableArrivals(route, stopId, minArrivalTime) ==
    {busArrivalMinutesOf(route.vehicles[vi[1]].predictions[vi[2]]) :
        vi \in {wj \in PredictionsFor(route, stopId) :
            /\ Usable(route.vehicles[wj[1]].predictions[wj[2]].timeToArrivalInSeconds)
            /\ busArrivalMinutesOf(route.vehicles[wj[1]].predictions[wj[2]])
                  >= minArrivalTime}}

\* the same with usable read as findNextBus tests it: anything but
\* undefined, null standing for an arrival in 0 minutes
BoardableArrivalsAsTested(route, stopId, minArrivalTime) ==
    {busArrivalMinutesOf(route.vehicles[vi[1]].predictions[vi[2]]) :
        vi \in {wj \in PredictionsFor(route, stopId) :
            /\ IsDefined(route.vehicles[wj[1]].predictions[wj[2]].timeToArrivalInSeconds)
            /\ busArrivalMinutesOf(route.vehicles[wj[1]].predictions[wj[2]])
                  >= minArrivalTime}}

\* result is null when arrivals is empty and the smallest of arrivals otherwise
SmallestOf(result, arrivals) ==
    /\ ~result.found <=> arrivals = {}
    /\ result.found =>
          /\ result.eta \in arrivals
          /\ \A a \in arrivals : result.eta <= a

NextBusReturned == ret.op = "findNextBus"

\* C4: a vehicle returned by findNextBus arrives no earlier than the rider:
\* eta >= minArrivalTime and waitTime = eta - minArrivalTime >= 0.
C4_NoNegativeWait ==
    (NextBusReturned /\ ret.result.found) =>
        /\ ret.result.eta >= ret.minArrivalTime
        /\ ret.result.waitTime = ret.result.eta - ret.minArrivalTime
        /\ ret.result.waitTime >= 0

\* a rider five minutes from the stop has been given the bus of minute 8
\* although another vehicle reaches the stop earlier, before the rider
C4_Witness ==
    /\ NextBusReturned
    /\ ret.minArrivalTime = 5 * TicksPerMinute
    /\ ret.result.found
    /\ ret.result.waitTime = 3 * TicksPerMinute
    /\ \E v \in DOMAIN routes[1].vehicles :
          /\ Len(routes[1].vehicles[v].predictions) > 0
          /\ routes[1].vehicles[v].predictions[1] =
                [stopId |-> MatcherStart, timeToArrivalInSeconds |-> Null]

\* C5: findNextBus returns null exactly when no prediction of any vehicle
\* for the stop is usable and at or after minArrivalTime, and otherwise
\* returns the smallest such arrival, later predictions of a vehicle
\* included.  (Stated for either reading of "usable", so that only a
\* prediction the scan fails to reach refutes it.)
C5_ScansEveryPrediction ==
    NextBusReturned =>
        \/ SmallestOf(ret.result,
                      BoardableArrivals(routes[1], ret.stopId, ret.minArrivalTime))
        \/ SmallestOf(ret.result,
                      BoardableArrivalsAsTested(routes[1], ret.stopId,
                                                ret.minArrivalTime))

\* C6: a prediction whose secondsToArrival is undefined, null or negative is
\* never the boarding prediction of findNextBus and never the start of a
\* ride time of estimateBusTravelTime.
C6_UnusableNeverUsed ==
    /\ (NextBusReturned /\ ret.result.found) =>
          Usable(ret.result.prediction.timeToArrivalInSeconds)
    /\ (ret.op = "estimateBusTravelTimeLive" /\ ret.result.travelTime > 0) =>
          Usable(ret.busInfo.prediction.timeToArrivalInSeconds)

EstimateReturned == ret.op \in {"estimateBusTravelTime", "estimateBusTravelTimeLive"}

\* the ride time, in minutes (ticks), the estimate returned
RideTimeOf(r) ==
    IF r.op = "estimateBusTravelTimeLive" THEN r.result.travelTime ELSE r.result

\* the positions of the end-stop predictions of the matched vehicle that lie
\* strictly after the first start-stop prediction and strictly before the
\* next start-stop prediction with a later arrival (no upper bound when
\* there is none)
QualifyingEnds(predictions, startStopId, endStopId) ==
    LET s == FirstOf({i \in DOMAIN predictions : predictions[i].stopId = startStopId})
        startTime == predictions[s].timeToArrivalInSeconds
        later == {i \in DOMAIN predictions :
                     /\ predictions[i].stopId = startStopId
                     /\ JsGt(predictions[i].timeToArrivalInSeconds, startTime)}
        n == FirstOf(later)
    IN IF s = 0 \/ ~IsDefined(startTime)
       THEN {}
       ELSE {e \in DOMAIN predictions :
                /\ predictions[e].stopId = endStopId
                /\ JsGt(predictions[e].timeToArrivalInSeconds, startTime)
                /\ n # 0 => JsGt(predictions[n].timeToArrivalInSeconds,
                                 predictions[e].timeToArrivalInSeconds)}

\* the ride time is arrival(end) - arrival(start) for a qualifying end
RideWithinLoop(r) ==
    LET predictions == r.busInfo.vehicle.predictions
    IN \E e \in QualifyingEnds(predictions, r.startStopId, r.endStopId) :
          RideTimeOf(r) =
              (ToNumber(predictions[e].timeToArrivalInSeconds)
                 - ToNumber(r.busInfo.prediction.timeToArrivalInSeconds))
              * TicksPerSecond

\* C7: estimateBusTravelTime returns a positive ride time only for an
\* end-stop prediction strictly between the first start-stop prediction and
\* the next later start-stop prediction, the ride time being the difference
\* of the two arrivals: an end-stop prediction of a later loop is never matched.
C7_RideWithinLoop ==
    (EstimateReturned /\ RideTimeOf(ret) > 0) => RideWithinLoop(ret)

\* what C7 says, of the estimate of src/unnamed/part_005 alone
LiveRideWithinLoop ==
    (ret.op = "estimateBusTravelTimeLive" /\ ret.result.travelTime > 0) =>
        RideWithinLoop(ret)

\* the estimate of part_005 has refused an end-stop prediction of the next loop
LiveRideWithinLoop_Witness ==
    /\ ret.op = "estimateBusTravelTimeLive"
    /\ ret.result.travelTime = 0
    /\ ret.busInfo.vehicle.predictions =
          <<[stopId |-> MatcherStart, timeToArrivalInSeconds |-> Num(480)],
            [stopId |-> MatcherStart, timeToArrivalInSeconds |-> Num(900)],
            [stopId |-> MatcherEnd, timeToArrivalInSeconds |-> Num(1200)]>>

---------------------------------------------------------------------------
(* The planner: the route S0..S3 (stops 660 m apart) with up to two        *)
(* vehicles and any predictions, and a rider's request; findBestRoute of   *)
(* busRouting.js or of part_005 answers it.                                *)

\* seconds: 8 and 20 minutes
PlannerTimeValues == {Num(480), Num(1200)}

PlannerPredictions ==
    [stopId : StopIds, timeToArrivalInSeconds : PlannerTimeValues]

\* <<origin, destination>>, metres along the line:
\*   from between S0 and S1 (5 minutes' walk to each) to S3;
\*   from S2 back to S0
ForwardRequest == <<30 * 33, 80 * 33>>

BackwardRequest == <<60 * 33, 20 * 33>>

\*   from between S0 and S1 to between S2 and S3
ThroughRequest == <<30 * 33, 70 * 33>>

\*   from far beyond the end of the line to S3, and from between S0 and S1
\*   to far beyond the end of the line
NoStartRequest == <<150 * 33, 80 * 33>>

NoEndRequest == <<30 * 33, 150 * 33>>

\*   from the equator (latitude 0, 660 m before S0) to S3
EquatorRequest == <<0, 80 * 33>>

\*   with no origin, and with no destination
MissingRequests == {<<AbsentLocation, 80 * 33>>, <<30 * 33, AbsentLocation>>}

Requests ==
    {ForwardRequest, BackwardRequest, ThroughRequest, NoStartRequest,
     NoEndRequest, EquatorRequest} \cup MissingRequests

InitPlanner ==
    /\ \/ \E nv \in 0..2 :
          \E k1 \in (IF nv = 0 THEN {0} ELSE 0..MaxPredictions) :
          \E k2 \in (IF nv < 2 THEN {0} ELSE 0..(MaxPredictions - k1)) :
          \E p1 \in [1..k1 -> PlannerPredictions],
             p2 \in [1..k2 -> PlannerPredictions] :
             routes = <<[id |-> "R1", stops |-> LineStops, isCircular |-> FALSE,
                         vehicles |-> VehicleList(nv, p1, p2)]>>
       \/ routes = AbsentRoutes
    /\ \E rq \in Requests :
          /\ userLocation = rq[1]
          /\ destinationLocation = rq[2]
    /\ ret = NoRet

CallFindBestRoute ==
    /\ ret.op = "none"
    /\ \E sorted \in sortOutcomes(possibleTrips(userLocation,
                                                destinationLocation, routes)) :
          ret' = [op |-> "findBestRoute",
                  performed |-> stepsPerformed(userLocation,
                                               destinationLocation, routes),
                  possibleTrips |-> sorted,
                  result |-> findBestRoute(userLocation, destinationLocation,
                                           routes, sorted)]
    /\ routes' = snapshotAfter(routes)
    /\ UNCHANGED <<userLocation, destinationLocation>>

CallFindBestRouteLive ==
    /\ ret.op = "none"
    /\ \E sorted \in sortOutcomes(possibleTripsLive(userLocation,
                                                    destinationLocation, routes)) :
          ret' = [op |-> "findBestRouteLive",
                  possibleTrips |-> sorted,
                  result |-> findBestRouteLive(userLocation, destinationLocation,
                                               routes, sorted)]
    /\ routes' = snapshotAfter(routes)
    /\ UNCHANGED <<userLocation, destinationLocation>>

NextPlanner ==
    \/ CallFindBestRoute
    \/ CallFindBestRouteLive

SpecPlanner == InitPlanner /\ [][NextPlanner]_vars

---------------------------------------------------------------------------
(* Notions the claims about the planner are stated in *)

PlannerReturned == ret.op \in {"findBestRoute", "findBestRouteLive"}

\* the trips a 'bus' result returns: the primary trip and the alternatives
ReturnedTrips(result) ==
    IF result.recommendation = "bus"
    THEN {candidateOf(result.trip)}
           \cup {result.alternativeTrips[i] : i \in DOMAIN result.alternativeTrips}
    ELSE {}

\* the candidate trips of the call, in ranked order
CandidateTrips == {ret.possibleTrips[i] : i \in DOMAIN ret.possibleTrips}

RouteOf(trip) == routes[routeById(routes, trip.routeId)]

\* the vehicle a trip was matched to
VehicleOf(trip) ==
    LET route == RouteOf(trip)
    IN route.vehicles[CHOOSE v \in DOMAIN route.vehicles :
                         route.vehicles[v].id = trip.busId]

\* the end-stop predictions of the matched vehicle later than its first
\* start-stop prediction
LaterEnds(trip) ==
    LET predictions == VehicleOf(trip).predictions
        s == FirstOf({i \in DOMAIN predictions :
                         predictions[i].stopId = trip.startStop.id})
    IN {e \in DOMAIN predictions :
           /\ predictions[e].stopId = trip.endStop.id
           /\ JsGt(predictions[e].timeToArrivalInSeconds,
                   predictions[s].timeToArrivalInSeconds)}

\* C3: no trip returned by findBestRoute rides backward: on the
\* non-circular route S0..S3 the end stop of every returned trip stands
\* after its start stop, whatever the predictions are.
C3_NoBackwardTrip ==
    PlannerReturned =>
        \A trip \in ReturnedTrips(ret.result) :
            (~RouteOf(trip).isCircular /\ DistinctStopIds(RouteOf(trip))) =>
                IndexOf(RouteOf(trip), trip.startStop.id)
                   < IndexOf(RouteOf(trip), trip.endStop.id)

\* what C3 says, of findBestRoute of src/BackEnd/busRouting.js alone
BackEndNoBackwardTrip ==
    ret.op = "findBestRoute" =>
        \A trip \in ReturnedTrips(ret.result) :
            IndexOf(RouteOf(trip), trip.startStop.id)
               < IndexOf(RouteOf(trip), trip.endStop.id)

\* C8: a stop pair whose matched vehicle has no end-stop prediction later
\* than its start-stop prediction yields no candidate trip: no ride time
\* from distance and speed stands in for the missing prediction.
C8_NoFallbackRideTime ==
    PlannerReturned =>
        \A trip \in CandidateTrips : LaterEnds(trip) # {}

\* what C8 says, of findBestRoute of src/unnamed/part_005 alone
LiveNoFallbackRideTime ==
    ret.op = "findBestRouteLive" =>
        \A trip \in CandidateTrips : LaterEnds(trip) # {}

\* the snapshot of Scenario A: one vehicle, predicting S1 in 8 minutes and
\* S3 in 20 minutes
ScenarioAVehicles ==
    <<[id |-> "V1",
       predictions |->
           <<[stopId |-> "S1", timeToArrivalInSeconds |-> Num(480)],
             [stopId |-> "S3", timeToArrivalInSeconds |-> Num(1200)]>>]>>

ScenarioA ==
    /\ routes # AbsentRoutes
    /\ routes[1].vehicles = ScenarioAVehicles
    /\ <<userLocation, destinationLocation>> = ForwardRequest

\* C9: every candidate has busWaitTime = arrival(start) - walkToStopTime and
\* busTravelTime = arrival(end) - arrival(start) of the matched vehicle; in
\* Scenario A (walk of 5 minutes to S1, S1 in 8 minutes, S3 in 20) the
\* candidate S1 -> S3 has busWaitTime 3, busTravelTime 12, stopsBetween 2.
C9_WaitAndRideFromPredictions ==
    PlannerReturned =>
        /\ \A trip \in CandidateTrips :
              /\ trip.busWaitTime = trip.busETA - trip.walkToStopTime
              /\ \E e \in LaterEnds(trip) :
                    trip.busTravelTime =
                        busArrivalMinutesOf(VehicleOf(trip).predictions[e])
                          - trip.busETA
        /\ ScenarioA =>
              \E trip \in CandidateTrips :
                  /\ trip.startStop.id = "S1"
                  /\ trip.endStop.id = "S3"
                  /\ trip.walkToStopTime = 5 * TicksPerMinute
                  /\ trip.busWaitTime = 3 * TicksPerMinute
                  /\ trip.busTravelTime = 12 * TicksPerMinute
                  /\ trip.stopsBetween = 2

\* Scenario A as findBestRoute of src/BackEnd/busRouting.js answers it
BackEndScenarioA ==
    (ret.op = "findBestRoute" /\ ScenarioA) =>
        /\ ret.result.recommendation = "bus"
        /\ ret.result.trip.startStop.id = "S1"
        /\ ret.result.trip.endStop.id = "S3"
        /\ ret.result.trip.busWaitTime = 3 * TicksPerMinute
        /\ ret.result.trip.busTravelTime = 12 * TicksPerMinute
        /\ ret.result.trip.stopsBetween = 2

---------------------------------------------------------------------------
(* The ranking on its own: any list of candidate trips as the loops of     *)
(* findBestRoute may leave it (times in half minutes, the total no less    *)
(* than the walk), then the sort and the choice of lines 383-415.          *)

MaxTrips == 3

\* walkToStopTime: 1, 2 or 3 minutes
WalkTimes == {k * (TicksPerMinute \div 2) : k \in {2, 4, 6}}

\* totalTime: 10 to 12 minutes, by half minutes
TotalTimes == {k * (TicksPerMinute \div 2) : k \in 20..24}

\* a candidate trip that boards at the stop walk minutes away, the bus
\* leaving as the rider arrives and stopping at the destination
RankingTrip(walk, total) ==
    [routeId |-> "R1",
     walkToStopTime |-> walk,
     busWaitTime |-> 0,
     busTravelTime |-> total - walk,
     totalTime |-> total]

RankingTrips == {RankingTrip(w, t) : w \in WalkTimes, t \in TotalTimes}

InitRanking ==
    /\ routes = <<>>
    /\ userLocation = 0
    /\ destinationLocation = 0
    /\ \E n \in 1..MaxTrips :
       \E trips \in [1..n -> RankingTrips] :
          ret = [op |-> "possibleTrips", possibleTrips |-> trips]

RankTrips ==
    /\ ret.op = "possibleTrips"
    /\ \E sorted \in sortOutcomes(ret.possibleTrips) :
          ret' = [op |-> "ranked",
                  unsorted |-> ret.possibleTrips,
                  possibleTrips |-> sorted,
                  result |-> busResult(sorted, 0)]
    /\ UNCHANGED <<routes, userLocation, destinationLocation>>

NextRanking == RankTrips

SpecRanking == InitRanking /\ [][NextRanking]_vars

---------------------------------------------------------------------------
(* Notions the claims about the ranking are stated in *)

Ranked == ret.op \in {"ranked", "findBestRoute", "findBestRouteLive"}

OneMinute == 1 * TicksPerMinute

\* candidates a and b stand in the order the tie-break rule asks for when a
\* is ranked before b
RightOrder(a, b) ==
    /\ Abs(a.totalTime - b.totalTime) <= OneMinute =>
          a.walkToStopTime <= b.walkToStopTime
    /\ Abs(a.totalTime - b.totalTime) > OneMinute =>
          a.totalTime < b.totalTime

\* every two candidates of the ranked list stand in the right order
PairwiseRanked(trips) ==
    \A i, j \in DOMAIN trips : i < j => RightOrder(trips[i], trips[j])

\* the tie-break rule orders the candidates consistently: whenever it puts
\* a no later than b and b no later than c, it puts a no later than c
ConsistentlyOrdered(trips) ==
    \A i, j, k \in DOMAIN trips :
        (RightOrder(trips[i], trips[j]) /\ RightOrder(trips[j], trips[k]))
            => RightOrder(trips[i], trips[k])

\* C10 as claimed: in the ranked list any two candidates within a minute of
\* each other stand by walkToStopTime, and any two further apart by totalTime.
C10_AnyTwoCandidatesRanked ==
    Ranked => PairwiseRanked(ret.possibleTrips)

\* The same holds of every ranked list whose candidates the rule
\* orders consistently, as it does any one or two candidates; of two
\* candidates half a minute apart the one with the closer start stop is the
\* primary trip.
ConsistentCandidatesRanked ==
    (Ranked /\ ConsistentlyOrdered(ret.possibleTrips)) =>
        /\ PairwiseRanked(ret.possibleTrips)
        /\ ret.possibleTrips # <<>> =>
              candidateOf(ret.result.trip) = ret.possibleTrips[1]

\* two candidates half a minute apart, the slower one boarding closer, came
\* in the order faster-first out of the loops and the closer one was made
\* the primary trip
TieBreakPicksCloserStop ==
    /\ ret.op = "ranked"
    /\ Len(ret.unsorted) = 2
    /\ ret.unsorted[2].totalTime - ret.unsorted[1].totalTime = TicksPerMinute \div 2
    /\ ret.unsorted[2].walkToStopTime < ret.unsorted[1].walkToStopTime
    /\ candidateOf(ret.result.trip) = ret.unsorted[2]

\* C27: the primary trip returned by findBestRoute is never beaten by more
\* than the similarity threshold: no candidate's totalTime is more than one
\* minute smaller than the primary trip's, for a candidate set of any size.
C27_PrimaryNotBeaten ==
    (Ranked /\ ret.possibleTrips # <<>>) =>
        \A i \in DOMAIN ret.possibleTrips :
            ret.possibleTrips[i].totalTime
              >= ret.result.trip.totalTime - OneMinute

\* what does hold: the primary trip of one or two candidates is not beaten
\* by more than a minute, nor is that of any candidates the tie-break rule
\* orders consistently
PrimaryNotBeatenWhenConsistent ==
    (/\ Ranked
     /\ ret.possibleTrips # <<>>
     /\ Len(ret.possibleTrips) <= 2 \/ ConsistentlyOrdered(ret.possibleTrips)) =>
        \A i \in DOMAIN ret.possibleTrips :
            ret.possibleTrips[i].totalTime
              >= ret.result.trip.totalTime - OneMinute

\* three candidates a minute apart one after the other, each slower one
\* boarding closer, came slowest first out of the loops and were left in
\* that order: the primary trip is two minutes slower than the fastest
PrimaryBeaten_Witness ==
    /\ ret.op = "ranked"
    /\ Len(ret.unsorted) = 3
    /\ ret.unsorted = ret.possibleTrips
    /\ ret.possibleTrips[3].totalTime
         = ret.result.trip.totalTime - 2 * OneMinute

---------------------------------------------------------------------------
(* The result of findBestRoute *)

BusReturned == PlannerReturned /\ ret.result.recommendation = "bus"

ErrorReturned == PlannerReturned /\ ret.result.recommendation = "error"

SmallerOf(a, b) == IF a <= b THEN a ELSE b

\* C11: on a 'bus' result the primary trip is the first candidate of the
\* ranked list and alternativeTrips are the second and third, in ranked
\* order: min(2, candidates - 1) entries, none of them the primary trip;
\* directWalkTime is present.
C11_PrimaryAndAlternatives ==
    BusReturned =>
        LET ranked == ret.possibleTrips
            alternatives == ret.result.alternativeTrips
        IN /\ candidateOf(ret.result.trip) = ranked[1]
           /\ Len(alternatives) = SmallerOf(2, Len(ranked) - 1)
           /\ \A i \in DOMAIN alternatives :
                 /\ alternatives[i] = ranked[i + 1]
                 /\ alternatives[i] # ret.result.trip
                 /\ alternatives[i] # ranked[1]
           /\ "directWalkTime" \in DOMAIN ret.result

\* findBestRoute of src/BackEnd has ranked four candidates and returned the
\* second and the third as alternatives
C11_Witness ==
    /\ ret.op = "findBestRoute"
    /\ BusReturned
    /\ Len(ret.possibleTrips) = 4
    /\ ret.result.alternativeTrips = SubSeq(ret.possibleTrips, 2, 3)
    /\ ret.result.directWalkTime = walkTimeOfDistance(40 * 33)

\* C12: every candidate trip and every returned trip has totalTime =
\* walkToStopTime + busWaitTime + busTravelTime + walkFromStopTime, the walk
\* being the walk from the origin to the start stop and the wait the time
\* from the rider's arrival at the stop to the matched vehicle's.
C12_TotalTimeIsSum ==
    PlannerReturned =>
        \A trip \in CandidateTrips \cup ReturnedTrips(ret.result) :
            /\ trip.totalTime =
                  trip.walkToStopTime + trip.busWaitTime
                    + trip.busTravelTime + trip.walkFromStopTime
            /\ trip.walkToStopTime =
                  (Abs(userLocation - trip.startStop.pos) * TicksPerMinute) \div 66
            /\ trip.busWaitTime = trip.busETA - trip.walkToStopTime

\* findBestRoute of src/BackEnd has returned a trip with a walk to the stop,
\* a wait, a ride and a walk from the stop, none of them zero
C12_Witness ==
    /\ ret.op = "findBestRoute"
    /\ BusReturned
    /\ ret.result.trip.walkToStopTime > 0
    /\ ret.result.trip.busWaitTime > 0
    /\ ret.result.trip.busTravelTime > 0
    /\ ret.result.trip.walkFromStopTime > 0
    /\ ret.result.alternativeTrips # <<>>

---------------------------------------------------------------------------
(* The error results of findBestRoute of src/BackEnd/busRouting.js *)

BackEndReturned == ret.op = "findBestRoute"

\* origin, destination and snapshot are all present
RequestPresent ==
    /\ userLocation # AbsentLocation
    /\ destinationLocation # AbsentLocation
    /\ routes # AbsentRoutes

\* some stop of the snapshot lies within radius metres of location
StopWithin(location, radius) ==
    \E r \in DOMAIN routes : \E i \in DOMAIN routes[r].stops :
        Abs(location - routes[r].stops[i].pos) <= radius

\* the direct walk, at 1.1 m/s, in minutes (ticks)
DirectWalk == (Abs(userLocation - destinationLocation) * TicksPerMinute) \div 66

\* no stop within 400 m of the origin, or none within 400 m of the destination
NoNearbyStops ==
    /\ RequestPresent
    /\ ~StopWithin(userLocation, 400) \/ ~StopWithin(destinationLocation, 400)

\* C13: with no stop within the walking radius of the origin, or of the
\* destination, the result is an error with a reason and with directWalkTime
\* the direct walk time, positive when origin and destination differ.
C13_NoNearbyStopsError ==
    (BackEndReturned /\ NoNearbyStops) =>
        /\ ret.result.recommendation = "error"
        /\ "reason" \in DOMAIN ret.result
        /\ "directWalkTime" \in DOMAIN ret.result
        /\ ret.result.directWalkTime = DirectWalk
        /\ userLocation # destinationLocation => ret.result.directWalkTime > 0

\* the same for an origin and a destination off the equator: the error is
\* returned with its reason and the direct walk time
NoNearbyStopsErrorOffEquator ==
    (BackEndReturned /\ NoNearbyStops
       /\ userLocation # 0 /\ destinationLocation # 0) =>
        /\ ret.result.recommendation = "error"
        /\ ret.result.reason \in {"No bus stops nearby (within 400m)",
                                  "No bus stops near destination"}
        /\ ret.result.directWalkTime = DirectWalk
        /\ ret.result.directWalkTime > 0

\* no stop within 400 m of the destination, and the error returned carries
\* the direct walk time
NoNearbyStopsErrorOffEquator_Witness ==
    /\ BackEndReturned
    /\ StopWithin(userLocation, 400)
    /\ ~StopWithin(destinationLocation, 400)
    /\ ret.result.reason = "No bus stops near destination"
    /\ ret.result.directWalkTime = DirectWalk

\* stops near both ends, and no stop pair survived the checks
NoCandidateSurvives ==
    /\ RequestPresent
    /\ StopWithin(userLocation, 400)
    /\ StopWithin(destinationLocation, 400)
    /\ ret.possibleTrips = <<>>

\* C14: when stops lie near both ends but no stop pair survives, the result
\* is an error with a no-service reason, and directWalkTime is in the result.
C14_NoServiceErrorWithWalkTime ==
    (BackEndReturned /\ NoCandidateSurvives) =>
        /\ ret.result.recommendation = "error"
        /\ "reason" \in DOMAIN ret.result
        /\ "directWalkTime" \in DOMAIN ret.result

\* what does hold then: the no-service error is returned as a value
NoServiceErrorReturned ==
    (BackEndReturned /\ NoCandidateSurvives) =>
        /\ ret.result.recommendation = "error"
        /\ ret.result.reason = "No buses running along your route"

\* C15: with the origin, the destination or the snapshot absent the result
\* is the error 'Missing required data' and nothing else has been done: no
\* walk time, no stop search, no enumeration of candidates.
C15_MissingInputError ==
    (BackEndReturned /\ ~RequestPresent) =>
        /\ ret.result = [recommendation |-> "error",
                         reason |-> "Missing required data"]
        /\ ret.performed = {}
        /\ ret.possibleTrips = <<>>

\* the planner was called with a request but no snapshot, and has answered
C15_Witness ==
    /\ BackEndReturned
    /\ routes = AbsentRoutes
    /\ userLocation # AbsentLocation
    /\ destinationLocation # AbsentLocation
    /\ ret.result.reason = "Missing required data"

---------------------------------------------------------------------------
(* The snapshot across a call *)

SnapshotUnchangedOnError_Witness ==
    /\ BackEndReturned
    /\ ErrorReturned
    /\ routes # AbsentRoutes
    /\ routes[1].vehicles # <<>>

---------------------------------------------------------------------------
(* The stop search on its own: one or two routes, each with any stop list  *)
(* over two stop ids or with none at all, stop i of either route standing  *)
(* at the same place; a location and a walking radius.                     *)

NearbyStopIds == {"S0", "S1"}

NearbyRouteIds == <<"R1", "R2">>

\* a route without a stops property
RouteWithoutStops(id) ==
    [id |-> id, isCircular |-> FALSE, vehicles |-> <<>>]

NearbyRoutesOf(id) ==
    {RouteWithoutStops(id)}
      \cup {[id |-> id, stops |-> MakeStops(ids), isCircular |-> FALSE,
             vehicles |-> <<>>] :
               ids \in UNION {[1..n -> NearbyStopIds] : n \in 0..MaxStops}}

\* at the first stop; 400 m after it (260 m before the second); between the
\* third and the fourth
NearbyLocations == {20 * 33, 20 * 33 + 400, 70 * 33}

\* the radii findBestRoute passes, src/BackEnd and src/unnamed/part_005
NearbyRadii == {NearbyRadius, NearbyRadiusLive}

InitNearby ==
    /\ \E n \in 1..2 :
       \E r1 \in NearbyRoutesOf(NearbyRouteIds[1]) :
       \E r2 \in (IF n = 1 THEN {r1} ELSE NearbyRoutesOf(NearbyRouteIds[2])) :
          routes = IF n = 1 THEN <<r1>> ELSE <<r1, r2>>
    /\ userLocation \in NearbyLocations
    /\ destinationLocation = 0
    /\ ret = NoRet

CallFindNearbyStops ==
    /\ ret.op = "none"
    /\ \E maxWalkMeters \in NearbyRadii :
          ret' = [op |-> "findNearbyStops",
                  maxWalkMeters |-> maxWalkMeters,
                  result |-> findNearbyStops(userLocation, routes, maxWalkMeters)]
    /\ UNCHANGED <<routes, userLocation, destinationLocation>>

NextNearby == CallFindNearbyStops

SpecNearby == InitNearby /\ [][NextNearby]_vars

\* <<r, i>> of every stop record of the snapshot within radius of location
RecordsWithin(location, radius) ==
    {ri \in (DOMAIN routes) \X (1..MaxStops) :
        /\ "stops" \in DOMAIN routes[ri[1]]
        /\ ri[2] \in DOMAIN routes[ri[1]].stops
        /\ Abs(location - routes[ri[1]].stops[ri[2]].pos) <= radius}

\* entry is the entry of record <<r, i>>
EntryOf(entry, ri) ==
    /\ entry.routeId = routes[ri[1]].id
    /\ entry.stopId = routes[ri[1]].stops[ri[2]].id
    /\ entry.pos = routes[ri[1]].stops[ri[2]].pos

\* C18: findNearbyStops returns one entry, with its route's id, for each
\* stop record of each route within the radius, and nothing else; a stop id
\* served by two routes has an entry for each; a route without stops, or
\* with an empty stop list, has none.
C18_OneEntryPerRouteStop ==
    ret.op = "findNearbyStops" =>
        LET within == RecordsWithin(userLocation, ret.maxWalkMeters)
        IN /\ \A ri \in within :
                 Cardinality({k \in DOMAIN ret.result :
                                 EntryOf(ret.result[k], ri)}) = 1
           /\ \A k \in DOMAIN ret.result :
                 \E ri \in within : EntryOf(ret.result[k], ri)
           /\ Len(ret.result) = Cardinality(within)

\* the stop where the rider stands is served by both routes, and the search
\* has returned it once for each route
C18_Witness ==
    /\ ret.op = "findNearbyStops"
    /\ Len(routes) = 2
    /\ \E j, k \in DOMAIN ret.result :
          /\ ret.result[j].stopId = ret.result[k].stopId
          /\ ret.result[j].pos = userLocation
          /\ ret.result[k].pos = userLocation
          /\ ret.result[j].routeId = "R1"
          /\ ret.result[k].routeId = "R2"

\* a route without a stop list, next to a route with stops nearby: the
\* entries returned are the second route's
RouteWithoutStops_Witness ==
    /\ ret.op = "findNearbyStops"
    /\ Len(routes) = 2
    /\ "stops" \notin DOMAIN routes[1]
    /\ ret.result # <<>>

---------------------------------------------------------------------------
(* The clock stamps: calculateETA, src/BackEnd/busRouting.js:434-446, and  *)
(* formatETA, src/unnamed/part_004:218-226.  A clock reading is the local  *)
(* time of day in seconds; a stamp is <<hours, minutes>>.                  *)

\* calculateETA: the time of day totalTime minutes after now, the hours
\* after 12 counted from 1 again
calculateETA(totalTime, now) ==
    LET etaInSeconds == now + (totalTime \div TicksPerSecond)
        hours == (etaInSeconds \div 3600) % 24
        minutes == (etaInSeconds \div 60) % 60
    IN <<IF hours > 12 THEN hours - 12 ELSE hours, minutes>>

\* formatETA: setMinutes keeps the whole minutes of totalMinutes; hour 0 is
\* written 12
formatETA(totalMinutes, now) ==
    LET etaInSeconds == now + (totalMinutes \div TicksPerMinute) * 60
        hours == (etaInSeconds \div 3600) % 24
        minutes == (etaInSeconds \div 60) % 60
    IN <<IF hours > 12 THEN hours - 12 ELSE IF hours = 0 THEN 12 ELSE hours,
         minutes>>

\* a trip stamped by a call that also takes the time since midnight off
\* the wait
withETA_waitFromClock(trip, now) ==
    [f \in (DOMAIN trip) \cup {"ETA"} |->
        IF f = "ETA" THEN calculateETA(trip.totalTime, now)
        ELSE IF f = "busWaitTime" THEN trip.busWaitTime - now
        ELSE trip[f]]

\* ETA: calculateETA(totalTime) of line 367, the one field of a trip the
\* clock enters
withETA(trip, now) ==
    [f \in (DOMAIN trip) \cup {"ETA"} |->
        IF f = "ETA" THEN calculateETA(trip.totalTime, now) ELSE trip[f]]

\* findBestRoute called when the clock reads now: the result with the ETA
\* of its trips
findBestRouteAt(origin, destination, rts, sorted, now) ==
    LET result == findBestRoute(origin, destination, rts, sorted)
    IN IF result.recommendation = "bus"
       THEN [result EXCEPT
                !.trip = withETA(@, now),
                !.alternativeTrips = [i \in DOMAIN @ |-> withETA(@[i], now)]]
       ELSE result

---------------------------------------------------------------------------
(* aggregateRouteInfo, src/unnamed/part_004:120-216.  walkingDirections is *)
(* what getWalkingDirections resolved to: one entry for each walk, with    *)
(* the provider's duration in seconds and distance in metres.              *)

\* duration / 60 of lines 130, 160, 161: minutes (ticks) of a duration in
\* seconds
minutesOfSeconds(duration) == duration * TicksPerSecond

\* a walk segment, lines 137-145, 171-179 and 196-204
walkSegment(from, to, directions) ==
    [type |-> "walk",
     from |-> from,
     to |-> to,
     duration |-> minutesOfSeconds(directions.duration),
     distance |-> directions.distance]

\* the wait segment, lines 180-189
waitSegment(trip) ==
    [type |-> "wait",
     stop |-> trip.startStop,
     duration |-> trip.busWaitTime,
     bus |-> [id |-> trip.busId]]

\* the ride segment, lines 190-196
rideSegment(trip) ==
    [type |-> "ride",
     fromStop |-> trip.startStop,
     toStop |-> trip.endStop,
     duration |-> trip.busTravelTime,
     stopsBetween |-> trip.stopsBetween]

\* the segments without the wait at the stop
busSegments_noWait(startCoords, endCoords, trip, walkingDirections) ==
    <<walkSegment(startCoords, trip.startStop, walkingDirections[1]),
      rideSegment(trip),
      walkSegment(trip.endStop, endCoords, walkingDirections[2])>>

\* segments of a bus itinerary, lines 170-205
busSegments(startCoords, endCoords, trip, walkingDirections) ==
    <<walkSegment(startCoords, trip.startStop, walkingDirections[1]),
      waitSegment(trip),
      rideSegment(trip),
      walkSegment(trip.endStop, endCoords, walkingDirections[2])>>

\* the walk-only itinerary of lines 125-151; directWalkTime is undefined,
\* left out here, when the planner's error has none
walkItinerary(startCoords, endCoords, rawRoute, walkingDirections, now) ==
    LET walkDuration == minutesOfSeconds(walkingDirections[1].duration)
        itinerary ==
            [recommendation |-> "walk",
             error |-> rawRoute.reason,
             route |-> Null,
             segments |-> <<walkSegment(startCoords, endCoords,
                                        walkingDirections[1])>>,
             totalTime |-> walkDuration,
             eta |-> formatETA(walkDuration, now),
             alternativeTrips |-> <<>>]
    IN IF "directWalkTime" \in DOMAIN rawRoute
       THEN [f \in (DOMAIN itinerary) \cup {"directWalkTime"} |->
                IF f = "directWalkTime"
                THEN rawRoute.directWalkTime
                ELSE itinerary[f]]
       ELSE itinerary

\* the bus itinerary of lines 153-215
busItinerary(startCoords, endCoords, rawRoute, walkingDirections, now) ==
    LET walkToStopDuration == minutesOfSeconds(walkingDirections[1].duration)
        walkFromStopDuration == minutesOfSeconds(walkingDirections[2].duration)
        totalTime == walkToStopDuration + rawRoute.trip.busWaitTime
                       + rawRoute.trip.busTravelTime + walkFromStopDuration
    IN [recommendation |-> "bus",
        route |-> [id |-> rawRoute.route.id],
        segments |-> busSegments(startCoords, endCoords, rawRoute.trip,
                                 walkingDirections),
        totalTime |-> totalTime,
        eta |-> formatETA(totalTime, now),
        directWalkTime |-> rawRoute.directWalkTime,
        alternativeTrips |-> rawRoute.alternativeTrips]

\* the itinerary returned for the planner's result rawRoute
aggregateRouteInfo(startCoords, endCoords, rawRoute, walkingDirections, now) ==
    IF rawRoute.recommendation = "error"
    THEN walkItinerary(startCoords, endCoords, rawRoute, walkingDirections, now)
    ELSE busItinerary(startCoords, endCoords, rawRoute, walkingDirections, now)

---------------------------------------------------------------------------
(* A session of the app: the snapshot of the line S0..S3 with at most one  *)
(* vehicle, a request with both ends present, the clock and the walking    *)
(* directions provider.  The planner is called, and called again on the    *)
(* same snapshot; or the itinerary is assembled.                           *)

\* 12:59:30 and 23:58:00
ClockReadings == {12 * 3600 + 59 * 60 + 30, 23 * 3600 + 58 * 60}

\* what the provider may answer for a walk: five minutes for 330 m, as the
\* planner estimates at 1.1 m/s, or seven or nine minutes for a longer way
\* round
Directions ==
    {[duration |-> 300, distance |-> 330],
     [duration |-> 420, distance |-> 460],
     [duration |-> 540, distance |-> 590]}

SessionRequests == {ForwardRequest, ThroughRequest, NoEndRequest}

InitSession ==
    /\ \E nv \in 0..1 :
       \E k1 \in (IF nv = 0 THEN {0} ELSE 0..MaxPredictions) :
       \E p1 \in [1..k1 -> PlannerPredictions] :
          routes = <<[id |-> "R1", stops |-> LineStops, isCircular |-> FALSE,
                      vehicles |-> VehicleList(nv, p1, <<>>)]>>
    /\ \E rq \in SessionRequests :
          /\ userLocation = rq[1]
          /\ destinationLocation = rq[2]
    /\ ret = NoRet

\* the first call; Array.prototype.sort leaves possibleTrips in one of
\* sortOutcomes
CallFindBestRouteAt ==
    /\ ret.op = "none"
    /\ \E now \in ClockReadings :
       \E sorted \in sortOutcomes(possibleTrips(userLocation,
                                                destinationLocation, routes)) :
          ret' = [op |-> "findBestRouteAt",
                  possibleTrips |-> sorted,
                  result |-> findBestRouteAt(userLocation, destinationLocation,
                                             routes, sorted, now)]
    /\ routes' = snapshotAfter(routes)
    /\ UNCHANGED <<userLocation, destinationLocation>>

\* the second call with the same arguments, at a later or earlier reading
\* of the clock: the sort, run on an equal array with the same comparator,
\* makes the same comparisons and leaves the same order
CallFindBestRouteAgain ==
    /\ ret.op = "findBestRouteAt"
    /\ \E now \in ClockReadings :
       \E sorted \in sortOutcomes(possibleTrips(userLocation,
                                                destinationLocation, routes)) :
          /\ sorted = ret.possibleTrips
          /\ ret' = [op |-> "findBestRouteAgain",
                     possibleTrips |-> sorted,
                     first |-> ret.result,
                     result |-> findBestRouteAt(userLocation,
                                                destinationLocation,
                                                routes, sorted, now)]
    /\ routes' = snapshotAfter(routes)
    /\ UNCHANGED <<userLocation, destinationLocation>>

\* what handleGetDirections installs as routeResult: the itinerary, or the
\* error of its catch clause when aggregateRouteInfo has thrown
routeResultOf(thrown, result) ==
    IF thrown
    THEN [recommendation |-> "error",
          error |-> "Error calculating route. Please try again.",
          errorDetails |-> "Response status"]
    ELSE result

\* aggregateRouteInfo: the planner's result, then the provider's directions
\* for one walk (error) or two (bus); fetchDirections rethrows a failure of
\* the provider (part_004 lines 56-59) and the call throws
CallAggregateRouteInfo ==
    /\ ret.op = "none"
    /\ \E now \in ClockReadings :
       \E sorted \in sortOutcomes(possibleTrips(userLocation,
                                                destinationLocation, routes)) :
          LET rawRoute == findBestRouteAt(userLocation, destinationLocation,
                                          routes, sorted, now)
              walks == IF rawRoute.recommendation = "error" THEN 1 ELSE 2
          IN \/ ret' = [op |-> "aggregateRouteInfo",
                        rawRoute |-> rawRoute,
                        thrown |-> TRUE,
                        routeResult |-> routeResultOf(TRUE, rawRoute)]
             \/ \E walkingDirections \in [1..walks -> Directions] :
                   ret' = [op |-> "aggregateRouteInfo",
                           rawRoute |-> rawRoute,
                           thrown |-> FALSE,
                           walkingDirections |-> walkingDirections,
                           result |-> aggregateRouteInfo(userLocation,
                                                         destinationLocation,
                                                         rawRoute,
                                                         walkingDirections, now),
                           routeResult |->
                               routeResultOf(FALSE,
                                   aggregateRouteInfo(userLocation,
                                                      destinationLocation,
                                                      rawRoute,
                                                      walkingDirections, now))]
    /\ routes' = snapshotAfter(routes)
    /\ UNCHANGED <<userLocation, destinationLocation>>

NextSession ==
    \/ CallFindBestRouteAt
    \/ CallFindBestRouteAgain
    \/ CallAggregateRouteInfo

SpecSession == InitSession /\ [][NextSession]_vars

---------------------------------------------------------------------------
(* Notions the claims about a session are stated in *)

\* a trip without its clock stamp
WithoutETA(trip) == [f \in (DOMAIN trip) \ {"ETA"} |-> trip[f]]

\* a planner's result without the clock stamps of its trips
WithoutStamps(result) ==
    IF result.recommendation = "bus"
    THEN [result EXCEPT
             !.trip = WithoutETA(@),
             !.alternativeTrips = [i \in DOMAIN @ |-> WithoutETA(@[i])]]
    ELSE result

AggregateReturned == ret.op = "aggregateRouteInfo" /\ ~ret.thrown

\* the types of the segments, in order
SegmentTypes(segments) == [i \in DOMAIN segments |-> segments[i].type]

\* C19: for a 'bus' result of the planner the itinerary has the four
\* segments walk (origin to start stop), wait (start stop, bus, wait), ride
\* (start stop to end stop, stopsBetween), walk (end stop to destination),
\* in this order; for an error of the planner it has the one segment walk
\* (origin to destination), route null and the planner's reason.
C19_SegmentsByVariant ==
    AggregateReturned =>
        LET trip == ret.rawRoute.trip
            segments == ret.result.segments
        IN IF ret.rawRoute.recommendation = "bus"
           THEN /\ SegmentTypes(segments) = <<"walk", "wait", "ride", "walk">>
                /\ segments[1].from = userLocation
                /\ segments[1].to = trip.startStop
                /\ segments[2].stop = trip.startStop
                /\ segments[2].bus.id = trip.busId
                /\ segments[2].duration = trip.busWaitTime
                /\ segments[3].fromStop = trip.startStop
                /\ segments[3].toStop = trip.endStop
                /\ segments[3].stopsBetween = trip.stopsBetween
                /\ segments[4].from = trip.endStop
                /\ segments[4].to = destinationLocation
           ELSE /\ SegmentTypes(segments) = <<"walk">>
                /\ segments[1].from = userLocation
                /\ segments[1].to = destinationLocation
                /\ ret.result.route = Null
                /\ ret.result.error = ret.rawRoute.reason

\* a bus itinerary has been assembled for a trip with a wait at the stop
C19_Witness ==
    /\ AggregateReturned
    /\ ret.rawRoute.recommendation = "bus"
    /\ ret.rawRoute.trip.busWaitTime > 0
    /\ Len(ret.result.segments) = 4

\* a walk itinerary has been assembled for an error of the planner
WalkItinerary_Witness ==
    /\ AggregateReturned
    /\ ret.rawRoute.recommendation = "error"
    /\ ret.result.error = "No buses running along your route"

BusItineraryReturned ==
    AggregateReturned /\ ret.rawRoute.recommendation = "bus"

\* C20: the itinerary carries the planner's numbers unchanged: the wait and
\* ride durations, stopsBetween, directWalkTime and totalTime are those of
\* the planner's primary trip.
C20_NumbersPropagated ==
    BusItineraryReturned =>
        /\ ret.result.segments[2].duration = ret.rawRoute.trip.busWaitTime
        /\ ret.result.segments[3].duration = ret.rawRoute.trip.busTravelTime
        /\ ret.result.segments[3].stopsBetween = ret.rawRoute.trip.stopsBetween
        /\ ret.result.directWalkTime = ret.rawRoute.directWalkTime
        /\ ret.result.totalTime = ret.rawRoute.trip.totalTime

\* what does hold: all of them but totalTime are the planner's, and
\* totalTime is the sum of the durations of the four segments
ItineraryTotalOfSegments ==
    BusItineraryReturned =>
        /\ ret.result.segments[2].duration = ret.rawRoute.trip.busWaitTime
        /\ ret.result.segments[3].duration = ret.rawRoute.trip.busTravelTime
        /\ ret.result.segments[3].stopsBetween = ret.rawRoute.trip.stopsBetween
        /\ ret.result.directWalkTime = ret.rawRoute.directWalkTime
        /\ ret.result.totalTime =
              ret.result.segments[1].duration + ret.result.segments[2].duration
                + ret.result.segments[3].duration + ret.result.segments[4].duration

\* C28: in every bus itinerary returned by aggregateRouteInfo the rider can
\* board the matched bus: the duration of the walk-to-stop segment, taken
\* from the walking-directions provider, is at most the matched bus's ETA
\* at the start stop, that is, walk duration + wait duration is the bus ETA
\* with a non-negative wait.
C28_RiderCanBoard ==
    BusItineraryReturned =>
        /\ ret.result.segments[1].duration <= ret.rawRoute.trip.busETA
        /\ ret.result.segments[2].duration >= 0
        /\ ret.result.segments[1].duration + ret.result.segments[2].duration
             = ret.rawRoute.trip.busETA

\* what does hold: the wait of the itinerary is the bus ETA less the
\* planner's own straight-line walk estimate, and is not negative
WaitFromPlannerEstimate ==
    BusItineraryReturned =>
        /\ ret.result.segments[2].duration >= 0
        /\ ret.rawRoute.trip.walkToStopTime + ret.result.segments[2].duration
             = ret.rawRoute.trip.busETA

\* an itinerary whose walk to the stop ends after the matched bus has left
BusMissed_Witness ==
    /\ BusItineraryReturned
    /\ ret.result.segments[1].duration > ret.rawRoute.trip.busETA
    /\ ret.result.segments[2].bus.id = ret.rawRoute.trip.busId

---------------------------------------------------------------------------
(* Failure of the walking-directions provider *)

ProviderFailed == ret.op = "aggregateRouteInfo" /\ ret.thrown

\* C21: if the walking-directions provider fails, aggregateRouteInfo still
\* returns an itinerary - the bus recommendation when the planner found one,
\* otherwise the walk fallback - with an explicit estimate flag, and the
\* user is not shown an error.
C21_ProviderFailureDegrades ==
    ProviderFailed =>
        /\ ret.routeResult.recommendation =
              (IF ret.rawRoute.recommendation = "bus" THEN "bus" ELSE "walk")
        /\ "estimate" \in DOMAIN ret.routeResult

\* what the code does: the failure of the provider reaches the user as the
\* error of handleGetDirections, whatever the planner had found
ProviderFailureShownAsError ==
    ProviderFailed =>
        /\ ret.routeResult.recommendation = "error"
        /\ ret.routeResult.error = "Error calculating route. Please try again."

\* the provider has failed after the planner had found a bus trip
ProviderFailureShownAsError_Witness ==
    /\ ProviderFailed
    /\ ret.rawRoute.recommendation = "bus"
    /\ ret.routeResult.recommendation = "error"

---------------------------------------------------------------------------
(* Completeness of findBestRoute of src/unnamed/part_005 *)

\* the vehicle can be taken from the stop start to the stop end by a rider
\* who sets out from origin: its first prediction for start is usable and
\* not before the rider has walked there, and it predicts end later, before
\* it is back at start
CanRide(vehicle, start, end, origin) ==
    LET predictions == vehicle.predictions
        s == FirstOf({i \in DOMAIN predictions :
                         predictions[i].stopId = start.id})
    IN /\ s # 0
       /\ Usable(predictions[s].timeToArrivalInSeconds)
       /\ busArrivalMinutesOf(predictions[s])
             >= walkTimeOfDistance(Abs(origin - start.pos))
       /\ \E e \in QualifyingEnds(predictions, start.id, end.id) :
              Usable(predictions[e].timeToArrivalInSeconds)

\* the pairs <<start stop, end stop>> of a route, the first within the live
\* planner's radius of the origin and the second of the destination
NearbyPairs(route) ==
    {se \in (DOMAIN route.stops) \X (DOMAIN route.stops) :
        /\ Abs(userLocation - route.stops[se[1]].pos) <= NearbyRadiusLive
        /\ Abs(destinationLocation - route.stops[se[2]].pos) <= NearbyRadiusLive
        /\ route.stops[se[1]].id # route.stops[se[2]].id}

\* some vehicle can be taken between some nearby pair of stops
RideExists ==
    \E r \in DOMAIN routes : \E se \in NearbyPairs(routes[r]) :
        \E v \in DOMAIN routes[r].vehicles :
            CanRide(routes[r].vehicles[v], routes[r].stops[se[1]],
                    routes[r].stops[se[2]], userLocation)

\* the vehicle findNextBus matches at a nearby start stop can be taken to a
\* nearby end stop
MatchedRideExists ==
    \E r \in DOMAIN routes : \E se \in NearbyPairs(routes[r]) :
        LET start == routes[r].stops[se[1]]
            nextBus == findNextBus(routes[r], start.id,
                                   walkTimeOfDistance(Abs(userLocation
                                                            - start.pos)))
        IN /\ nextBus.found
           /\ CanRide(nextBus.vehicle, start, routes[r].stops[se[2]],
                      userLocation)

LiveReturned == ret.op = "findBestRouteLive" /\ RequestPresent

\* C30: completeness of the live-corroborated planner: if for some nearby
\* start stop and nearby end stop of the same route at least one vehicle can
\* be boarded and has a later end-stop prediction before it loops back, then
\* findBestRoute returns a 'bus' recommendation, also when the soonest
\* vehicle at the start stop is another one that has no end-stop prediction.
C30_LivePlannerComplete ==
    (LiveReturned /\ RideExists) => ret.result.recommendation = "bus"

\* what does hold: a 'bus' recommendation is returned when the vehicle that
\* findNextBus matches at the start stop is one that can be taken
LivePlannerCompleteForMatched ==
    (LiveReturned /\ MatchedRideExists) => ret.result.recommendation = "bus"

\* a bus has been recommended on the vehicle matched at the start stop
LivePlannerCompleteForMatched_Witness ==
    /\ LiveReturned
    /\ MatchedRideExists
    /\ Len(routes[1].vehicles) = 2
    /\ ret.result.recommendation = "bus"

\* V1 predicts S1 only, V2 predicts S1 no sooner and S3 later: V1 is
\* matched at S1 and the planner reports that no buses are running
SoonestVehicleWithoutEnd_Witness ==
    /\ LiveReturned
    /\ <<userLocation, destinationLocation>> = ForwardRequest
    /\ routes[1].vehicles =
          <<[id |-> "V1",
             predictions |->
                <<[stopId |-> "S1", timeToArrivalInSeconds |-> Num(480)]>>],
            [id |-> "V2",
             predictions |->
                <<[stopId |-> "S1", timeToArrivalInSeconds |-> Num(480)],
                  [stopId |-> "S3", timeToArrivalInSeconds |-> Num(1200)]>>]>>
    /\ RideExists
    /\ ret.result.recommendation = "error"
    /\ ret.result.reason = "No buses running along your route"

---------------------------------------------------------------------------
(* fetchAllRoutes of osuBusAPI.js: one asynchronous function for each      *)
(* route id, its route fetch followed by its vehicles fetch; the fetches   *)
(* of different routes complete in any order.  ret.promises holds the      *)
(* promise of each route id, and routes the snapshot once Promise.all has  *)
(* resolved.                                                               *)

MaxRoutes == 3

\* the routeIds of line 2
AllRouteIds == <<"BE", "CC", "CLS", "ER", "MC", "MWC", "WMC">>

\* the first MaxRoutes of them
FetchRouteIds == SubSeq(AllRouteIds, 1, MaxRoutes)

\* the null an asynchronous function returns for a route it could not get
NoRoute == [id |-> "null"]

\* what a fetch of a route may come to: it throws (network, or a body that
\* is not JSON), the response is not ok, or it is ok with a body that has no
\* data, data without stops, or data with stops
RouteResponses ==
    {[kind |-> "thrown"],
     [kind |-> "httpError"],
     [kind |-> "ok", json |-> [status |-> "ok"]],
     [kind |-> "ok", json |-> [data |-> [name |-> "Campus Connector"]]],
     [kind |-> "ok", json |-> [data |-> [name |-> "Campus Connector",
                                         stops |-> LineStops]]]}

\* what a fetch of the vehicles of a route may come to
VehicleResponses ==
    {[kind |-> "thrown"],
     [kind |-> "httpError"],
     [kind |-> "ok", json |-> [status |-> "ok"]],
     [kind |-> "ok", json |-> [data |-> [vehicles |-> <<>>]]],
     [kind |-> "ok", json |-> [data |-> [vehicles |-> <<[id |-> "V1"]>>]]],
     [kind |-> "ok",
      json |-> [data |-> [vehicles |->
                  <<[id |-> "V1",
                     predictions |->
                        <<[stopId |-> "S1",
                           timeToArrivalInSeconds |-> Num(480)]>>]>>]]]}

\* the promise of one route id before its route fetch has completed
PendingRoute ==
    [stage |-> "route", routeFetch |-> "pending", vehicleFetch |-> "none",
     state |-> "pending", value |-> NoRoute]

\* the asynchronous function returns the value v: its promise is fulfilled
fulfilledWith(promise, v) ==
    [promise EXCEPT !.stage = "settled", !.state = "fulfilled", !.value = v]

\* routeData.stops?.map(...) || [] of lines 18-23
stopsOfRouteData(routeData) ==
    IF "stops" \in DOMAIN routeData
    THEN [i \in DOMAIN routeData.stops |->
             [id |-> routeData.stops[i].id, pos |-> routeData.stops[i].pos]]
    ELSE <<>>

\* the same function without the try of line 5: an exception of the route
\* fetch rejects the promise
routeFetchSettles_noCatch(id, promise, response) ==
    IF response.kind = "thrown"
    THEN [promise EXCEPT !.stage = "settled", !.state = "rejected",
                         !.routeFetch = "thrown"]
    ELSE IF response.kind = "httpError"
    THEN fulfilledWith([promise EXCEPT !.routeFetch = "httpError"], NoRoute)
    ELSE IF "data" \notin DOMAIN response.json
    THEN fulfilledWith([promise EXCEPT !.routeFetch = "noData"], NoRoute)
    ELSE [promise EXCEPT
             !.stage = "vehicles",
             !.routeFetch = "ok",
             !.value = [id |-> id,
                        name |-> response.json.data.name,
                        stops |-> stopsOfRouteData(response.json.data),
                        vehicles |-> <<>>]]

\* lines 5-31 and 74-77: the route fetch of route id has completed.  An
\* exception is caught and a response that is not ok, or has no data,
\* returns null; otherwise the function goes on to fetch the vehicles
routeFetchSettles(id, promise, response) ==
    IF response.kind = "thrown"
    THEN fulfilledWith([promise EXCEPT !.routeFetch = "thrown"], NoRoute)
    ELSE IF response.kind = "httpError"
    THEN fulfilledWith([promise EXCEPT !.routeFetch = "httpError"], NoRoute)
    ELSE IF "data" \notin DOMAIN response.json
    THEN fulfilledWith([promise EXCEPT !.routeFetch = "noData"], NoRoute)
    ELSE [promise EXCEPT
             !.stage = "vehicles",
             !.routeFetch = "ok",
             !.value = [id |-> id,
                        name |-> response.json.data.name,
                        stops |-> stopsOfRouteData(response.json.data),
                        vehicles |-> <<>>]]

\* lines 40-58: vehiclesJson.data?.vehicles || [], each vehicle with
\* predictions: vehicle.predictions || []
vehiclesOfJson(json) ==
    IF "data" \notin DOMAIN json
    THEN <<>>
    ELSE [i \in DOMAIN json.data.vehicles |->
             [id |-> json.data.vehicles[i].id,
              predictions |->
                 IF "predictions" \in DOMAIN json.data.vehicles[i]
                 THEN json.data.vehicles[i].predictions
                 ELSE <<>>]]

\* lines 33-73: the vehicles fetch has completed; vehicles stays [] when it
\* threw or its response is not ok, and the route is returned
vehicleFetchSettles(promise, response) ==
    LET vehicles == IF response.kind = "ok"
                    THEN vehiclesOfJson(response.json)
                    ELSE <<>>
    IN fulfilledWith([promise EXCEPT !.vehicleFetch = response.kind],
                     [promise.value EXCEPT !.vehicles = vehicles])

\* filter(Boolean) of line 80, on the values in the order of routeIds
RECURSIVE filterBoolean(_)
filterBoolean(values) ==
    IF values = <<>>
    THEN <<>>
    ELSE IF values[1] = NoRoute
    THEN filterBoolean(Tail(values))
    ELSE <<values[1]>> \o filterBoolean(Tail(values))

\* lines 80-85: the object keyed by route id, its keys in insertion order
routesObject(promises) ==
    filterBoolean([i \in 1..MaxRoutes |-> promises[i].value])

InitFetch ==
    /\ routes = AbsentRoutes
    /\ userLocation = AbsentLocation
    /\ destinationLocation = AbsentLocation
    /\ ret = [op |-> "fetching",
              promises |-> [i \in 1..MaxRoutes |-> PendingRoute]]

RouteIndices == 1..MaxRoutes

\* the route fetch of one of the routes completes
RouteFetchCompletes ==
    /\ ret.op = "fetching"
    /\ \E i \in RouteIndices, response \in RouteResponses :
          /\ ret.promises[i].stage = "route"
          /\ ret' = [ret EXCEPT !.promises[i] =
                        routeFetchSettles(FetchRouteIds[i], @, response)]
    /\ UNCHANGED <<routes, userLocation, destinationLocation>>

\* the vehicles fetch of one of the routes completes
VehicleFetchCompletes ==
    /\ ret.op = "fetching"
    /\ \E i \in RouteIndices, response \in VehicleResponses :
          /\ ret.promises[i].stage = "vehicles"
          /\ ret' = [ret EXCEPT !.promises[i] = vehicleFetchSettles(@, response)]
    /\ UNCHANGED <<routes, userLocation, destinationLocation>>

\* line 80: Promise.all is fulfilled once every promise is, and rejected
\* as soon as one is; fetchAllRoutes then returns the snapshot, or rejects
PromiseAllSettles ==
    /\ ret.op = "fetching"
    /\ \/ \A i \in RouteIndices : ret.promises[i].state = "fulfilled"
       \/ \E i \in RouteIndices : ret.promises[i].state = "rejected"
    /\ LET rejected == \E i \in RouteIndices :
                           ret.promises[i].state = "rejected"
       IN /\ ret' = [op |-> "fetchAllRoutes", promises |-> ret.promises,
                     rejected |-> rejected]
          /\ routes' = IF rejected THEN routes ELSE routesObject(ret.promises)
    /\ UNCHANGED <<userLocation, destinationLocation>>

NextFetch ==
    \/ RouteFetchCompletes
    \/ VehicleFetchCompletes
    \/ PromiseAllSettles

SpecFetch == InitFetch /\ [][NextFetch]_vars

---------------------------------------------------------------------------
(* Notions the claim about fetchAllRoutes is stated in *)

FetchSettled == ret.op = "fetchAllRoutes"

\* the ids of the routes of the snapshot
SnapshotIds == {routes[k].id : k \in DOMAIN routes}

\* the route ids whose route fetch came to one of the given ends
RouteIdsFetched(ends) ==
    {FetchRouteIds[i] : i \in {j \in RouteIndices :
                                   ret.promises[j].routeFetch \in ends}}

\* the vehicles fetch of a route failed: the route is in the snapshot with an
\* empty vehicle list
VehicleFailureLeavesRoute ==
    \A i \in RouteIndices :
        ret.promises[i].vehicleFetch \in {"thrown", "httpError"} =>
            \E k \in DOMAIN routes :
                /\ routes[k].id = FetchRouteIds[i]
                /\ routes[k].vehicles = <<>>

---------------------------------------------------------------------------
(* App of App.native.js.  ret holds the state of the component: the        *)
(* useState cells startLocation, routeResult, calculatingRoute, tripPhase  *)
(* and activeTrip, the ref locationSubscription, the directions request in *)
(* flight and the calls of Location.watchPositionAsync made so far, each   *)
(* with what its callback captured.  userLocation is userRegion and        *)
(* destinationLocation is destination.  A handler is one step together     *)
(* with the render and the effects that follow it; the completion of a     *)
(* directions request, the resolution of a watchPositionAsync call and the *)
(* delivery of a position to a callback are steps of their own.            *)

MaxWatches == 2

\* the buildings that can be chosen as destination, and as start
DestinationBuildings == {80 * 33, 70 * 33}

StartBuildings == {30 * 33}

\* where the GPS puts the user
GpsPosition == 10 * 33

\* routeResult === null
NoResult == [recommendation |-> "null"]

\* activeTrip === null
NoTrip == [active |-> FALSE, currentSegmentIndex |-> 0 - 1]

\* what aggregateRouteInfo may come to
Outcomes == {"bus", "walk", "thrown"}

\* what setRouteResult is given at lines 254 and 258-262 for a request from
\* from to to; the segments are those of aggregateRouteInfo, of which the
\* first starts at from and the last ends at to
resultOfRequest(outcome, from, to) ==
    IF outcome = "bus"
    THEN [recommendation |-> "bus",
          segments |-> <<[type |-> "walk", from |-> from],
                         [type |-> "wait"],
                         [type |-> "ride"],
                         [type |-> "walk", to |-> to]>>]
    ELSE IF outcome = "walk"
    THEN [recommendation |-> "walk",
          error |-> "No buses running along your route",
          segments |-> <<[type |-> "walk", from |-> from, to |-> to]>>]
    ELSE [recommendation |-> "error",
          error |-> "Error calculating route. Please try again.",
          errorDetails |-> "Response status"]

\* routeResult.segments, [] standing for the undefined of an error result
segmentsOf(routeResult) ==
    IF "segments" \in DOMAIN routeResult THEN routeResult.segments ELSE <<>>

\* locationSubscription.current.remove() and = null, when it is set
removeSubscription(app) ==
    IF app.ref = 0
    THEN app
    ELSE [app EXCEPT !.watches[app.ref].status = "removed", !.ref = 0]

\* activeTrip?.currentSegmentIndex of the dependency list of line 166
trackedIndex(app) ==
    IF app.activeTrip.active THEN app.activeTrip.currentSegmentIndex ELSE 0 - 1

\* the effect of lines 296-300, run when startLocation has changed
clearOnStartChange(before, app) ==
    IF /\ app.startLocation # before.startLocation
       /\ app.routeResult # NoResult
       /\ "error" \notin DOMAIN app.routeResult
    THEN [app EXCEPT !.routeResult = NoResult]
    ELSE app

\* the effect of lines 139-166, run when tripPhase or the segment index has
\* changed: the cleanup of its last run if that run returned one, then its
\* body, which either removes the subscription or calls watchPositionAsync
\* with a callback of this render
trackingEffect(before, app) ==
    IF /\ app.tripPhase = before.tripPhase
       /\ trackedIndex(app) = trackedIndex(before)
    THEN app
    ELSE LET cleaned == IF app.hasCleanup THEN removeSubscription(app) ELSE app
         IN IF \/ cleaned.tripPhase # "navigating"
               \/ ~cleaned.activeTrip.active
               \/ cleaned.routeResult = NoResult
            THEN [removeSubscription(cleaned) EXCEPT !.hasCleanup = FALSE]
            ELSE [cleaned EXCEPT
                     !.hasCleanup = TRUE,
                     !.watches = Append(@,
                         [status |-> "pending",
                          currentSegmentIndex |->
                              cleaned.activeTrip.currentSegmentIndex,
                          segments |-> Len(segmentsOf(cleaned.routeResult))])]

\* the render after a handler, with the effects whose dependencies changed
rendered(before, app) ==
    trackingEffect(before, clearOnStartChange(before, app))

\* handleEndTrip, lines 286-293
handleEndTrip(app) ==
    [removeSubscription(app) EXCEPT !.activeTrip = NoTrip,
                                    !.tripPhase = "planning"]

\* advanceSegment, lines 203-217, of the render in which activeTrip had the
\* segment index captured and routeResult the given number of segments; the
\* updater of line 212 spreads the activeTrip of now, which may be null
advanceSegment(app, captured, segments) ==
    IF captured + 1 >= segments
    THEN handleEndTrip(app)
    ELSE [app EXCEPT !.activeTrip = [active |-> TRUE,
                                     currentSegmentIndex |-> captured + 1]]

InitApp ==
    /\ routes = AbsentRoutes
    /\ userLocation \in {AbsentLocation, GpsPosition}
    /\ destinationLocation = AbsentLocation
    /\ ret = [op |-> "App",
              event |-> "mount",
              startLocation |-> AbsentLocation,
              routeResult |-> NoResult,
              calculatingRoute |-> FALSE,
              request |-> <<>>,
              tripPhase |-> "planning",
              activeTrip |-> NoTrip,
              ref |-> 0,
              hasCleanup |-> FALSE,
              watches |-> <<>>]

\* the number of watchPositionAsync calls is kept within MaxWatches
WithinWatches(app) == Len(app.watches) <= MaxWatches

\* handleSelectBuilding, lines 219-222; the search drawer is rendered in the
\* planning phase only (line 407)
SelectBuilding ==
    /\ ret.tripPhase = "planning"
    /\ \E b \in DestinationBuildings :
          /\ destinationLocation' = b
          /\ ret' = rendered(ret, [ret EXCEPT !.event = "selectBuilding",
                                              !.routeResult = NoResult])
    /\ UNCHANGED <<routes, userLocation>>

\* onSetStart of lines 412-417, and the "Use Current Location" button of
\* lines 376-379, which sets startLocation to null
SetStart ==
    /\ ret.tripPhase = "planning"
    /\ \E building \in StartBuildings \cup {AbsentLocation} :
          ret' = rendered(ret,
                     [ret EXCEPT
                         !.event = "setStart",
                         !.startLocation = building,
                         !.routeResult = IF building # AbsentLocation
                                         THEN NoResult
                                         ELSE @])
    /\ UNCHANGED <<routes, userLocation, destinationLocation>>

\* startLocation || userRegion of line 238
fromLocationOf(app) ==
    IF app.startLocation # AbsentLocation THEN app.startLocation ELSE userLocation

\* handleGetDirections up to its await, lines 237-253; the button is there
\* in the planning phase with a destination, and disabled while a request is
\* in flight (lines 371-386)
GetDirections ==
    /\ ret.tripPhase = "planning"
    /\ destinationLocation # AbsentLocation
    /\ ~ret.calculatingRoute
    /\ fromLocationOf(ret) # AbsentLocation
    /\ ret' = rendered(ret,
                  [ret EXCEPT
                      !.event = "getDirections",
                      !.calculatingRoute = TRUE,
                      !.request = <<[from |-> fromLocationOf(ret),
                                     to |-> destinationLocation]>>])
    /\ UNCHANGED <<routes, userLocation, destinationLocation>>

\* handleGetDirections after its await, lines 254-265: aggregateRouteInfo
\* has returned an itinerary or thrown
RequestCompletes ==
    /\ ret.request # <<>>
    /\ \E outcome \in Outcomes :
          ret' = rendered(ret,
                     [ret EXCEPT
                         !.event = "requestCompletes",
                         !.routeResult = resultOfRequest(outcome,
                                                         ret.request[1].from,
                                                         ret.request[1].to),
                         !.calculatingRoute = FALSE,
                         !.request = <<>>])
    /\ UNCHANGED <<routes, userLocation, destinationLocation>>

\* handleStartTrip, lines 269-283; its button is on the card of the result,
\* which shows a spinner instead while a request is in flight
StartTrip ==
    /\ ret.tripPhase = "planning"
    /\ ~ret.calculatingRoute
    /\ ret.routeResult # NoResult
    /\ ret.routeResult.recommendation # "error"
    /\ ret' = rendered(ret,
                  [ret EXCEPT
                      !.event = "startTrip",
                      !.activeTrip = [active |-> TRUE,
                                      currentSegmentIndex |-> 0],
                      !.tripPhase = "navigating"])
    /\ WithinWatches(ret')
    /\ UNCHANGED <<routes, userLocation, destinationLocation>>

\* onNextStep of the trip view (line 429): advanceSegment of the last render
NextStep ==
    /\ ret.tripPhase = "navigating"
    /\ ret.activeTrip.active
    /\ ret.routeResult # NoResult
    /\ ret' = rendered(ret,
                  [advanceSegment(ret, ret.activeTrip.currentSegmentIndex,
                                  Len(segmentsOf(ret.routeResult)))
                      EXCEPT !.event = "advance"])
    /\ WithinWatches(ret')
    /\ UNCHANGED <<routes, userLocation, destinationLocation>>

\* onEndTrip of the trip view (line 428)
EndTrip ==
    /\ ret.tripPhase = "navigating"
    /\ ret' = rendered(ret, [handleEndTrip(ret) EXCEPT !.event = "endTrip"])
    /\ UNCHANGED <<routes, userLocation, destinationLocation>>

\* line 149: a call of watchPositionAsync resolves and its handle is stored
\* in locationSubscription.current, over whatever is there
WatchResolves ==
    /\ \E w \in DOMAIN ret.watches :
          /\ ret.watches[w].status = "pending"
          /\ ret' = [ret EXCEPT !.event = "watchResolves",
                                !.watches[w].status = "active",
                                !.ref = w]
    /\ UNCHANGED <<routes, userLocation, destinationLocation>>

\* handleLocationUpdate, lines 169-200, called by a subscription that has
\* not been removed with a position within ARRIVAL_THRESHOLD of the target
\* of the segment its callback captured (farther positions change nothing)
LocationUpdate ==
    /\ \E w \in DOMAIN ret.watches :
          /\ ret.watches[w].status = "active"
          /\ ret.watches[w].currentSegmentIndex < ret.watches[w].segments
          /\ ret' = rendered(ret,
                        [advanceSegment(ret,
                                        ret.watches[w].currentSegmentIndex,
                                        ret.watches[w].segments)
                            EXCEPT !.event = "advance"])
    /\ WithinWatches(ret')
    /\ UNCHANGED <<routes, userLocation, destinationLocation>>

NextApp ==
    \/ SelectBuilding
    \/ SetStart
    \/ GetDirections
    \/ RequestCompletes
    \/ StartTrip
    \/ NextStep
    \/ EndTrip
    \/ WatchResolves
    \/ LocationUpdate

SpecApp == InitApp /\ [][NextApp]_vars

---------------------------------------------------------------------------
(* Notions the claims about App are stated in *)

\* what an itinerary was computed for: the start of its first segment and
\* the end of its last
ComputedFor(routeResult) ==
    <<routeResult.segments[1].from,
      routeResult.segments[Len(routeResult.segments)].to>>

\* C24: after any interleaving of destination selection, start-location
\* selection and completion of in-flight directions requests, a non-null
\* routeResult (here: one that is an itinerary) was computed for the
\* currently selected start location and destination; a request that
\* completes after another destination was selected does not install its
\* result.
C24_ResultForCurrentSelection ==
    (ret.routeResult # NoResult /\ "segments" \in DOMAIN ret.routeResult) =>
        ComputedFor(ret.routeResult)
          = <<fromLocationOf(ret), destinationLocation>>

\* what does hold: an itinerary is installed for the start location and the
\* destination that were selected when its request was made
ResultForRequestedSelection ==
    [][(ret.request # <<>> /\ ret'.request = <<>>
          /\ "segments" \in DOMAIN ret'.routeResult) =>
            ComputedFor(ret'.routeResult)
              = <<ret.request[1].from, ret.request[1].to>>]_vars

\* a request has completed after the destination was changed, and its bus
\* itinerary is the routeResult
SupersededResultInstalled_Witness ==
    /\ ret.event = "requestCompletes"
    /\ ret.routeResult.recommendation = "bus"
    /\ ComputedFor(ret.routeResult)[2] # destinationLocation

\* C25: tripPhase is 'navigating' exactly when activeTrip is non-null, and
\* while navigating routeResult is a non-error result with
\* 0 <= currentSegmentIndex < segments.length, under every sequence of
\* start-trip, next-step, location-update, end-trip and request-completion
\* events.
C25_NavigationInvariant ==
    /\ (ret.tripPhase = "navigating") <=> ret.activeTrip.active
    /\ ret.tripPhase = "navigating" =>
          /\ ret.routeResult # NoResult
          /\ ret.routeResult.recommendation # "error"
          /\ 0 <= ret.activeTrip.currentSegmentIndex
          /\ ret.activeTrip.currentSegmentIndex
               < Len(segmentsOf(ret.routeResult))

\* the other half of C25: each advance raises currentSegmentIndex by
\* exactly 1, and an advance from the last segment ends the trip
AdvanceRaisesIndexByOne ==
    [][(ret'.event = "advance" /\ ret.activeTrip.active) =>
          IF ret.activeTrip.currentSegmentIndex + 1
               >= Len(segmentsOf(ret.routeResult))
          THEN ~ret'.activeTrip.active /\ ret'.tripPhase = "planning"
          ELSE /\ ret'.activeTrip.active
               /\ ret'.activeTrip.currentSegmentIndex
                    = ret.activeTrip.currentSegmentIndex + 1]_vars

\* what does hold: the advances made by the button of the trip view, which
\* calls advanceSegment of the last render
NextStepRaisesIndexByOne ==
    [][NextStep =>
          IF ret.activeTrip.currentSegmentIndex + 1
               >= Len(segmentsOf(ret.routeResult))
          THEN ~ret'.activeTrip.active /\ ret'.tripPhase = "planning"
          ELSE /\ ret'.activeTrip.active
               /\ ret'.activeTrip.currentSegmentIndex
                    = ret.activeTrip.currentSegmentIndex + 1]_vars

\* the subscriptions that deliver positions
ActiveWatches == {w \in DOMAIN ret.watches : ret.watches[w].status = "active"}

\* C26: at most one position subscription is active at any time, and none
\* once tripPhase is 'planning', also when the trip ends or the segment
\* index changes before the watchPositionAsync call of the tracking effect
\* has resolved.
C26_OneSubscription ==
    /\ Cardinality(ActiveWatches) <= 1
    /\ ret.tripPhase = "planning" => ActiveWatches = {}

\* what does hold: the handle in locationSubscription.current is that of an
\* active subscription, and nothing else is ever removed
RefIsActive ==
    ret.ref # 0 => ret.ref \in ActiveWatches

\* a trip has ended while its watchPositionAsync call was pending, and the
\* call has resolved since
LeakedSubscription_Witness ==
    /\ ret.tripPhase = "planning"
    /\ ~ret.activeTrip.active
    /\ ActiveWatches # {}

=============================================================================
